---- MODULE Spec2Model ----
(***************************************************************************)
(* Model of the estate-agency agent layer (backend/agents.py) and of the   *)
(* table store it reads (backend/data_loader.py).                          *)
(*                                                                         *)
(* Python values are modelled as follows.  A dict is a function from key   *)
(* strings to values (a TLA+ record); the empty dict is the empty          *)
(* function.  None in a text column is the string NONE, None in a numeric  *)
(* column is the number NoneNum.  A date string is the sequence of its     *)
(* characters, so that Python's str comparison can be computed character   *)
(* by character.  An exception leaving a function is the value Raised(e).  *)
(***************************************************************************)
EXTENDS Integers, Sequences, FiniteSets, TLC

VARIABLES
    tables,             \* DataLoader._cache: name -> the snapshot of the file loaded
    files,              \* the CSV files on disk: name -> the snapshot a read would give
    reads,              \* name -> how many times load went to the file of that name
    served,             \* the last call of DataLoader.load or reload
    today,              \* datetime.now().strftime("%Y-%m-%d")
    ms_prop,            \* _calculate_match_score: the property of the calls
    ms_calls,           \* its last two calls, each [buyer, score]
    ag_pc,              \* a request to an agent endpoint: "idle", then "done"
    ag_req,             \* the request [agent, action, context]
    ag_out,             \* what the agent's execute did: result, model calls, searches
    peer,               \* a second process_query execution, while it is not running
    env,                \* what the callers, the model and the console may supply
    pc,                 \* where the current call of the orchestrator stands
    call,               \* its arguments [via, query, context, require_approval]
    llm_response,       \* the text call_llm returned to analyze_query
    llm_calls,          \* model calls made by the current call
    plan,               \* the plan dict as it reads now
    shared,             \* the context dict of execute_plan; plan["context"], if the
                        \* plan has that key, is this same dict
    agents,             \* the keys of the agent mapping given to execute_plan
    gate,               \* request_approval: the inputs read and its return value
    results,            \* the results dict of execute_plan
    step_idx,           \* the position of its loop in plan["steps"]
    invoked,            \* the agents' execute calls made by the current call
    envelope,           \* what process_query returned, or the exception that left it
    execution_history,  \* AgentManager.execution_history
    calls_made          \* number of calls started

scoreVars == <<ms_prop, ms_calls>>
agentVars == <<ag_pc, ag_req, ag_out>>
orchVars ==
    <<env, pc, call, llm_response, llm_calls, plan, shared, agents, gate, results, step_idx,
      invoked, envelope, execution_history, calls_made>>
loaderVars == <<files, reads, served>>
vars == <<tables, loaderVars, today, peer, scoreVars, agentVars, orchVars>>

----------------------------------------------------------------------------
(* Python values *)

NONE == "None"
NoneNum == -1
EmptyDict == <<>>

\* dict.get(key, default)
Get(d, k, default) == IF k \in DOMAIN d THEN d[k] ELSE default

\* truth value of a dict: empty is false
Truthy(d) == DOMAIN d # {}

\* a merge in which the entries of d are kept on a key collision
UpdateKeepingOld(d, other) ==
    [k \in DOMAIN d \cup DOMAIN other |-> IF k \in DOMAIN d THEN d[k] ELSE other[k]]

\* dict.update(other): entries of other replace entries of d
Update(d, other) ==
    [k \in DOMAIN d \cup DOMAIN other |-> IF k \in DOMAIN other THEN other[k] ELSE d[k]]

\* d[key] = value
SetItem(d, key, value) ==
    [k \in DOMAIN d \cup {key} |-> IF k = key THEN value ELSE d[k]]

\* An exception propagating out of a call
Raised(e) == [raised |-> e]
IsRaised(r) == "raised" \in DOMAIN r

Min(a, b) == IF a <= b THEN a ELSE b

\* seq[:n]
Take(s, n) == SubSeq(s, 1, Min(n, Len(s)))

\* int(x * num / den) for a number x >= 0: int() truncates, and the float
\* product of an integer price with 0.9, 0.95 or 1.2 is the exact decimal
\* value wherever that value is an integer (prices below 10^14).
IntMul(x, num, den) == (x * num) \div den

----------------------------------------------------------------------------
(* Python str operations.  TLA+ strings are sequences of characters; a     *)
(* string literal cannot hold a backquote, so the Markdown fence of three  *)
(* backquotes is written as three apostrophes.                             *)

UpperChars == "ABCDEFGHIJKLMNOPQRSTUVWXYZ"
LowerChars == "abcdefghijklmnopqrstuvwxyz"
\* The printable characters used here, in code point order
CodeOrder == "\n !#$%&'()*+,-./0123456789:;<=>?@ABCDEFGHIJKLMNOPQRSTUVWXYZ[]^_abcdefghijklmnopqrstuvwxyz{|}~"
Whitespace == {" ", "\n", "\t"}

CharAt(s, i) == SubSeq(s, i, i)

\* the position of character c in alphabet
IndexIn(alphabet, c) == CHOOSE i \in 1..Len(alphabet) : CharAt(alphabet, i) = c

\* character tables: upper to lower case, lower to upper case, code point order
ToLower == [c \in {CharAt(UpperChars, i) : i \in 1..Len(UpperChars)} |->
                CharAt(LowerChars, IndexIn(UpperChars, c))]
ToUpper == [c \in {CharAt(LowerChars, i) : i \in 1..Len(LowerChars)} |->
                CharAt(UpperChars, IndexIn(LowerChars, c))]
CodeRank == [c \in {CharAt(CodeOrder, i) : i \in 1..Len(CodeOrder)} |->
                IndexIn(CodeOrder, c)]

LowerChar(c) == IF c \in DOMAIN ToLower THEN ToLower[c] ELSE c

UpperChar(c) == IF c \in DOMAIN ToUpper THEN ToUpper[c] ELSE c

RECURSIVE Lower(_)
\* str.lower()
Lower(s) == IF s = "" THEN "" ELSE LowerChar(Head(s)) \o Lower(Tail(s))

RECURSIVE Upper(_)
\* str.upper()
Upper(s) == IF s = "" THEN "" ELSE UpperChar(Head(s)) \o Upper(Tail(s))

RECURSIVE LStrip(_)
LStrip(s) == IF s # "" /\ Head(s) \in Whitespace THEN LStrip(Tail(s)) ELSE s

RECURSIVE RStrip(_)
RStrip(s) ==
    IF s # "" /\ CharAt(s, Len(s)) \in Whitespace
    THEN RStrip(SubSeq(s, 1, Len(s) - 1)) ELSE s

\* str.strip()
Strip(s) == RStrip(LStrip(s))

\* the positions at which sub occurs in s
Occurrences(s, sub) ==
    {i \in 1..(Len(s) - Len(sub) + 1) : SubSeq(s, i, i + Len(sub) - 1) = sub}

\* sub in s
Contains(s, sub) == Occurrences(s, sub) # {}

\* the smallest element of a non-empty set of numbers
Least(S) == CHOOSE i \in S : \A j \in S : i <= j

\* s.split(sep)[0]
SplitFirst(s, sep) ==
    IF Contains(s, sep) THEN SubSeq(s, 1, Least(Occurrences(s, sep)) - 1) ELSE s

\* the text after the first occurrence of sep (sep occurs in s)
AfterFirst(s, sep) == SubSeq(s, Least(Occurrences(s, sep)) + Len(sep), Len(s))

\* s.split(sep)[1] (sep occurs in s)
SplitSecond(s, sep) == SplitFirst(AfterFirst(s, sep), sep)

Ord(c) == CodeRank[c]

RECURSIVE StrGreater(_, _)
\* a > b on str: by code point, a proper prefix being smaller
StrGreater(a, b) ==
    IF a = "" THEN FALSE
    ELSE IF b = "" THEN TRUE
    ELSE IF Head(a) = Head(b) THEN StrGreater(Tail(a), Tail(b))
    ELSE Ord(Head(a)) > Ord(Head(b))

----------------------------------------------------------------------------
(* IntelligenceAgent._calculate_match_score *)

\* the two budget awards exchanged
BudgetPointsSwapped(asking, budget) ==
    IF budget >= asking THEN 10
    ELSE IF 100 * budget >= 95 * asking THEN 20
    ELSE 0

BudgetPoints(asking, budget) ==
    IF budget >= asking THEN 20
    ELSE IF 100 * budget >= 95 * asking THEN 10
    ELSE 0

\* first-time buyers awarded as much as cash buyers
TypePointsEqual(buyer_type) ==
    IF buyer_type \in {"chain_free_cash", "first_time_buyer"} THEN 20 ELSE 0

TypePoints(buyer_type) ==
    IF buyer_type = "chain_free_cash" THEN 20
    ELSE IF buyer_type = "first_time_buyer" THEN 15
    ELSE 0

PriorityPoints(buyer) ==
    IF Get(buyer, "priority_level", NONE) = "hot" THEN 10 ELSE 0

calculate_match_score(property, buyer) ==
    LET asking == Get(property, "asking_price", 0)
        budget == Get(buyer, "max_budget", 0)
        score  == 50 + BudgetPoints(asking, budget)
                     + TypePoints(Get(buyer, "buyer_type", ""))
                     + PriorityPoints(buyer)
    IN  Min(score, 100)

----------------------------------------------------------------------------
(* The CSV files.  A snapshot [n, cycle] of a file is its first n rows in  *)
(* version cycle; n = 0 is a missing or empty file.                        *)

FileRows == 27

PropertyRow(id, asking, ptype, expiry) ==
    [property_id |-> id, asking_price |-> asking, property_type |-> ptype,
     bedrooms |-> 3, status |-> "active", postcode |-> "M20 1AA",
     epc_rating |-> "C", epc_expiry |-> expiry]

DemoProperties ==
    << PropertyRow("PROP-1", 300000, "semi_detached", "2023-01-01"),
       PropertyRow("PROP-2", NoneNum, NONE, NONE),
       PropertyRow("PROP-3", 100, "flat", "2024-06-01"),
       PropertyRow("PROP-4", 20, "terraced", "2024-06-02"),
       PropertyRow("PROP-5", 0, "detached", "2030-01-15") >>

\* the properties file in a version without the EPC columns
PropertiesNoEpc ==
    [i \in 1..Len(DemoProperties) |->
        [k \in DOMAIN DemoProperties[i] \ {"epc_rating", "epc_expiry"} |->
            DemoProperties[i][k]]]

AmlValues == <<"verified", "pending", NONE>>
CheckValues == <<"clear", "flagged", NONE>>

\* one vendor for every combination of the three AML columns
DemoVendors ==
    [i \in 1..FileRows |->
        [vendor_id |-> "VEN-" \o ToString(i),
         aml_status |-> AmlValues[((i - 1) % 3) + 1],
         pep_check |-> CheckValues[(((i - 1) \div 3) % 3) + 1],
         sanctions_check |-> CheckValues[(((i - 1) \div 9) % 3) + 1],
         aml_certificate_id |-> "AML-" \o ToString(i)]]

BudgetCycles ==
    << <<280000, 305000, 350000, 270000, 360000, 285000, 300000>>,
       <<350000, 269999, 285000, 360001, 95, 100, 19, 284999, 305000, 120, 24>> >>
TypeCycle == <<"first_time_buyer", "chain_free_cash", "investor", "chain_free_cash", "investor">>
PriorityCycle == <<"warm", "hot", "cold">>

Cyc(seq, i) == seq[((i - 1) % Len(seq)) + 1]

\* the buyers file, in each of its versions
DemoBuyers ==
    [cycle \in 1..Len(BudgetCycles) |->
        [i \in 1..FileRows |->
            [buyer_id |-> "BUY-" \o ToString(i),
             first_name |-> "Buyer", last_name |-> ToString(i),
             max_budget |-> Cyc(BudgetCycles[cycle], i),
             buyer_type |-> Cyc(TypeCycle, i),
             priority_level |-> Cyc(PriorityCycle, i),
             financial_status |-> "mortgage_approved"]]]


\* the rows of a snapshot of the file of that name
FileSnapshot(name, snap) ==
    Take(CASE name = "properties" -> IF snap.cycle = 1 THEN DemoProperties ELSE PropertiesNoEpc
           [] name = "vendors" -> DemoVendors
           [] name = "buyers" -> DemoBuyers[snap.cycle],
         snap.n)

----------------------------------------------------------------------------
(* DataLoader: lookups and searches over the loaded tables *)

\* DataLoader.load(name): the table of that name
Load(name) == FileSnapshot(name, tables[name])

\* df.empty
DfEmpty(df) == Len(df) = 0

\* the first row whose key column equals id, or the empty dict
GetRecord(name, key, id) ==
    LET df  == Load(name)
        row == SelectSeq(df, LAMBDA r : r[key] = id)
    IN  IF DfEmpty(df) THEN EmptyDict
        ELSE IF Len(row) > 0 THEN row[1] ELSE EmptyDict

get_property(property_id) == GetRecord("properties", "property_id", property_id)
get_vendor(vendor_id) == GetRecord("vendors", "vendor_id", vendor_id)
get_buyer(buyer_id) == GetRecord("buyers", "buyer_id", buyer_id)

\* s.startswith(prefix)
StartsWith(s, prefix) == Len(prefix) <= Len(s) /\ SubSeq(s, 1, Len(prefix)) = prefix

\* a comparison of a numeric cell with a number; an empty cell (NaN) compares false
NumGE(cell, x) == cell # NoneNum /\ cell >= x
NumLE(cell, x) == cell # NoneNum /\ cell <= x

PropertyMatches(r, criteria) ==
    /\ "min_price" \in DOMAIN criteria => NumGE(r.asking_price, criteria.min_price)
    /\ "max_price" \in DOMAIN criteria => NumLE(r.asking_price, criteria.max_price)
    /\ "bedrooms" \in DOMAIN criteria => r.bedrooms = criteria.bedrooms
    /\ "min_bedrooms" \in DOMAIN criteria => r.bedrooms >= criteria.min_bedrooms
    /\ "max_bedrooms" \in DOMAIN criteria => r.bedrooms <= criteria.max_bedrooms
    /\ "status" \in DOMAIN criteria => r.status = criteria.status
    /\ "property_type" \in DOMAIN criteria => r.property_type = criteria.property_type
    /\ "postcode_prefix" \in DOMAIN criteria => StartsWith(r.postcode, criteria.postcode_prefix)

search_properties(criteria) ==
    LET df == Load("properties")
    IN  IF DfEmpty(df) THEN <<>>
        ELSE SelectSeq(df, LAMBDA r : PropertyMatches(r, criteria))

BuyerMatches(r, criteria) ==
    /\ "min_budget" \in DOMAIN criteria => NumGE(r.max_budget, criteria.min_budget)
    /\ "max_budget" \in DOMAIN criteria => NumLE(r.max_budget, criteria.max_budget)
    /\ "buyer_type" \in DOMAIN criteria => r.buyer_type = criteria.buyer_type
    /\ "priority_level" \in DOMAIN criteria => r.priority_level = criteria.priority_level
    /\ "financial_status" \in DOMAIN criteria => r.financial_status = criteria.financial_status

\* a search that returns the whole table whatever the criteria
search_buyers_unfiltered(criteria) == Load("buyers")

search_buyers(criteria) ==
    LET df == Load("buyers")
    IN  IF DfEmpty(df) THEN <<>>
        ELSE SelectSeq(df, LAMBDA r : BuyerMatches(r, criteria))

----------------------------------------------------------------------------
(* What one call of an agent method does: the value it returns (or the     *)
(* exception it raises), the number of model calls it makes, and the       *)
(* criteria of the buyer searches it asks of the DataLoader.               *)

Out(result, llm, searches) == [result |-> result, llm_calls |-> llm, searches |-> searches]

\* BaseAgent.call_llm: the model's text, or the inline error text
LlmErrorPrefix == "Error calling LLM: "

----------------------------------------------------------------------------
(* IntelligenceAgent *)

ScoreLimit == 15
TopMatches == 5

\* the criteria _match_buyers passes to search_buyers
MatchCriteria(asking) ==
    [min_budget |-> IntMul(asking, 9, 10), max_budget |-> IntMul(asking, 12, 10)]

ScoredEntry(prop, buyer) ==
    [buyer_id   |-> Get(buyer, "buyer_id", NONE),
     name       |-> Get(buyer, "first_name", "") \o " " \o Get(buyer, "last_name", ""),
     score      |-> calculate_match_score(prop, buyer),
     buyer_type |-> Get(buyer, "buyer_type", NONE),
     priority   |-> Get(buyer, "priority_level", NONE)]

\* x put in front of the entries of equal score: an unstable sort
InsertByScoreUnstable(t, x) ==
    LET k == Cardinality({i \in 1..Len(t) : t[i].score > x.score})
    IN  SubSeq(t, 1, k) \o <<x>> \o SubSeq(t, k + 1, Len(t))

\* x put into t, which is in non-increasing score order, behind every entry
\* whose score is not smaller
InsertByScore(t, x) ==
    LET k == Cardinality({i \in 1..Len(t) : t[i].score >= x.score})
    IN  SubSeq(t, 1, k) \o <<x>> \o SubSeq(t, k + 1, Len(t))

RECURSIVE SortByScoreDesc(_)
\* list.sort(key=score, reverse=True): stable, equal scores keep their order
SortByScoreDesc(s) ==
    IF Len(s) = 0 THEN <<>>
    ELSE InsertByScore(SortByScoreDesc(SubSeq(s, 1, Len(s) - 1)), s[Len(s)])

NoPropertyError == [status |-> "error", message |-> "No property_id provided"]
NoVendorError == [status |-> "error", message |-> "No vendor_id provided"]

match_buyers(context) ==
    LET prop == IF "property_id" \in DOMAIN context
                THEN get_property(context.property_id) ELSE EmptyDict
        asking == Get(prop, "asking_price", 0)
        criteria == MatchCriteria(asking)
        buyers == Take(search_buyers(criteria), ScoreLimit)
        scored == [i \in 1..Len(buyers) |-> ScoredEntry(prop, buyers[i])]
    IN  IF ~Truthy(prop) THEN Out(NoPropertyError, 0, <<>>)
        ELSE IF asking = NoneNum THEN Out(Raised("TypeError"), 0, <<>>)
        ELSE Out([status        |-> "success",
                  type          |-> "buyer_matching",
                  matches_found |-> Len(scored),
                  top_matches   |-> Take(SortByScoreDesc(scored), TopMatches)],
                 0, <<criteria>>)

\* the levels with each threshold 20 lower
RiskLevelLowered(risk_score) ==
    IF risk_score < 20 THEN "LOW" ELSE IF risk_score < 40 THEN "MEDIUM" ELSE "HIGH"

RiskLevel(risk_score) ==
    IF risk_score < 40 THEN "LOW" ELSE IF risk_score < 60 THEN "MEDIUM" ELSE "HIGH"

\* a risk assessment that counts an unknown buyer as a chain buyer
assess_risk_unknown_buyer(context) ==
    LET buyer == IF "buyer_id" \in DOMAIN context
                 THEN get_buyer(context.buyer_id) ELSE EmptyDict
        chain == Get(buyer, "buyer_type", NONE) # "chain_free_cash"
        risk_score == IF chain THEN 20 + 20 ELSE 20
    IN  Out([status |-> "success",
             risk_level |-> IF risk_score < 40 THEN "LOW" ELSE "MEDIUM",
             risk_score |-> risk_score,
             factors |-> IF chain THEN <<"Chain buyer">> ELSE <<"Chain-free cash buyer">>],
            0, <<>>)

assess_risk(context) ==
    LET buyer == IF "buyer_id" \in DOMAIN context
                 THEN get_buyer(context.buyer_id) ELSE EmptyDict
        chain == Truthy(buyer) /\ Get(buyer, "buyer_type", NONE) # "chain_free_cash"
        risk_score == IF chain THEN 20 + 20 ELSE 20
        factors == IF ~Truthy(buyer) THEN <<>>
                   ELSE IF chain THEN <<"Chain buyer">> ELSE <<"Chain-free cash buyer">>
    IN  Out([status |-> "success", risk_level |-> RiskLevel(risk_score),
             risk_score |-> risk_score, factors |-> factors], 0, <<>>)

analyze_price(context) ==
    LET prop == IF "property_id" \in DOMAIN context
                THEN get_property(context.property_id) ELSE EmptyDict
        asking == Get(prop, "asking_price", 0)
    IN  IF ~Truthy(prop) THEN Out(NoPropertyError, 0, <<>>)
        ELSE IF asking = NoneNum THEN Out(Raised("TypeError"), 0, <<>>)
        ELSE Out([status |-> "success", asking_price |-> asking,
                  estimated_range |-> [low |-> IntMul(asking, 95, 100),
                                       high |-> IntMul(asking, 105, 100)],
                  market_position |-> "competitive"], 0, <<>>)

intelligence_execute(action, context, reply) ==
    LET a == Lower(action)
    IN  IF Contains(a, "match") /\ Contains(a, "buyer") THEN match_buyers(context)
        ELSE IF Contains(a, "risk") \/ Contains(a, "assess") THEN assess_risk(context)
        ELSE IF Contains(a, "price") \/ Contains(a, "valuation") THEN analyze_price(context)
        ELSE IF Contains(a, "score")
             THEN Out([status |-> "success", type |-> "scoring", score |-> 85], 0, <<>>)
        ELSE Out([status |-> "success", type |-> "llm_analysis", analysis |-> reply], 1, <<>>)

----------------------------------------------------------------------------
(* ComplianceAgent *)

\* any() in place of all()
check_aml_any(context) ==
    LET vendor == IF "vendor_id" \in DOMAIN context
                  THEN get_vendor(context.vendor_id) ELSE EmptyDict
        passed == \/ Get(vendor, "aml_status", NONE) = "verified"
                  \/ Get(vendor, "pep_check", NONE) = "clear"
                  \/ Get(vendor, "sanctions_check", NONE) = "clear"
    IN  IF ~Truthy(vendor) THEN Out(NoVendorError, 0, <<>>)
        ELSE Out([status         |-> "success",
                  aml_passed     |-> passed,
                  aml_status     |-> Get(vendor, "aml_status", NONE),
                  certificate_id |-> Get(vendor, "aml_certificate_id", "")], 0, <<>>)

check_aml(context) ==
    LET vendor == IF "vendor_id" \in DOMAIN context
                  THEN get_vendor(context.vendor_id) ELSE EmptyDict
        passed == /\ Get(vendor, "aml_status", NONE) = "verified"
                  /\ Get(vendor, "pep_check", NONE) = "clear"
                  /\ Get(vendor, "sanctions_check", NONE) = "clear"
    IN  IF ~Truthy(vendor) THEN Out(NoVendorError, 0, <<>>)
        ELSE Out([status         |-> "success",
                  aml_passed     |-> passed,
                  aml_status     |-> Get(vendor, "aml_status", NONE),
                  certificate_id |-> Get(vendor, "aml_certificate_id", "")], 0, <<>>)

\* a validation that looks for APPROVED on every line of the reply
validate_content_any_line(content, reply) ==
    IF content = "" THEN Out([status |-> "error", message |-> "No content provided"], 0, <<>>)
    ELSE Out([status |-> "success",
              approved |-> Contains(Upper(reply), "APPROVED"),
              validation_result |-> reply], 1, <<>>)

validate_content(content, reply) ==
    IF content = "" THEN Out([status |-> "error", message |-> "No content provided"], 0, <<>>)
    ELSE Out([status |-> "success",
              approved |-> Contains(SplitFirst(Upper(reply), "\n"), "APPROVED"),
              validation_result |-> reply], 1, <<>>)

\* ">=" in place of ">"
EpcValidOrEqual(expiry) ==
    IF expiry = NONE \/ expiry = "" THEN FALSE
    ELSE expiry = today \/ StrGreater(expiry, today)

\* "expiry > today if expiry else False": None and "" are both false
EpcValid(expiry) == IF expiry = NONE \/ expiry = "" THEN FALSE ELSE StrGreater(expiry, today)

validate_epc(context) ==
    LET prop == IF "property_id" \in DOMAIN context
                THEN get_property(context.property_id) ELSE EmptyDict
        expiry == Get(prop, "epc_expiry", "")
    IN  IF ~Truthy(prop) THEN Out(NoPropertyError, 0, <<>>)
        ELSE Out([status     |-> "success",
                  epc_valid  |-> EpcValid(expiry),
                  epc_rating |-> Get(prop, "epc_rating", ""),
                  epc_expiry |-> expiry], 0, <<>>)

compliance_execute(action, context, reply) ==
    LET a == Lower(action)
    IN  IF Contains(a, "aml") THEN check_aml(context)
        ELSE IF Contains(a, "validate") THEN validate_content(Get(context, "content", ""), reply)
        ELSE IF Contains(a, "epc") THEN validate_epc(context)
        ELSE Out([status |-> "success", type |-> "llm_compliance", response |-> reply], 1, <<>>)

----------------------------------------------------------------------------
(* ScoutAgent *)

SearchLimit == 10

RECURSIVE Without(_, _)
\* s.replace(c, "") for a character c
Without(s, c) ==
    IF s = "" THEN ""
    ELSE IF Head(s) = c THEN Without(Tail(s), c) ELSE Head(s) \o Without(Tail(s), c)

\* "REC-" + now.strftime("%Y%m%d%H%M%S"); the time of day is not modelled
RecordId == "REC-" \o Without(today, "-")

\* an execute that answers a property lookup of an unknown id with an error
scout_execute_strict(action, context, reply) ==
    IF Contains(Lower(action), "property")
          /\ ~Truthy(IF "property_id" \in DOMAIN context
                     THEN get_property(context.property_id) ELSE EmptyDict)
    THEN Out([status |-> "error", message |-> "No property_id provided"], 0, <<>>)
    ELSE Out([status |-> "success", type |-> "llm_response", response |-> reply], 1, <<>>)

scout_execute(action, context, reply) ==
    LET a == Lower(action)
        prop == IF "property_id" \in DOMAIN context
                THEN get_property(context.property_id) ELSE EmptyDict
        vendor == IF "vendor_id" \in DOMAIN context
                  THEN get_vendor(context.vendor_id) ELSE EmptyDict
        buyer == IF "buyer_id" \in DOMAIN context
                 THEN get_buyer(context.buyer_id) ELSE EmptyDict
        criteria == Get(context, "search_criteria", EmptyDict)
    IN  IF Contains(a, "property") /\ Truthy(prop)
        THEN Out([status |-> "success", type |-> "property", data |-> prop], 0, <<>>)
        ELSE IF Contains(a, "property") /\ Contains(a, "search")
        THEN LET properties == search_properties(criteria)
             IN  Out([status |-> "success", type |-> "property_search",
                      count |-> Len(properties), data |-> Take(properties, SearchLimit)],
                     0, <<>>)
        ELSE IF Contains(a, "vendor") /\ Truthy(vendor)
        THEN Out([status |-> "success", type |-> "vendor", data |-> vendor], 0, <<>>)
        ELSE IF Contains(a, "buyer") /\ Truthy(buyer)
        THEN Out([status |-> "success", type |-> "buyer", data |-> buyer], 0, <<>>)
        ELSE IF Contains(a, "buyer") /\ (Contains(a, "search") \/ Contains(a, "match"))
        THEN LET buyers == search_buyers(criteria)
             IN  Out([status |-> "success", type |-> "buyer_search",
                      count |-> Len(buyers), data |-> Take(buyers, SearchLimit)],
                     0, <<criteria>>)
        ELSE IF Contains(a, "epc") /\ Truthy(prop)
        THEN Out([status |-> "success", type |-> "epc_verification",
                  epc_rating |-> Get(prop, "epc_rating", "Unknown"),
                  epc_expiry |-> Get(prop, "epc_expiry", "Unknown"),
                  valid |-> TRUE], 0, <<>>)
        ELSE IF Contains(a, "crm") \/ Contains(a, "record")
        THEN Out([status |-> "success", type |-> "crm_operation", record_id |-> RecordId],
                 0, <<>>)
        ELSE IF Contains(a, "portal")
        THEN Out([status |-> "success", type |-> "portal_operation",
                  portals_updated |-> <<"rightmove", "zoopla", "onthemarket">>], 0, <<>>)
        ELSE Out([status |-> "success", type |-> "llm_response", response |-> reply], 1, <<>>)

----------------------------------------------------------------------------
(* ContentAgent *)

\* len(text.split()): the number of runs of non-whitespace characters
WordCount(text) ==
    Cardinality({i \in 1..Len(text) :
        /\ CharAt(text, i) \notin Whitespace
        /\ (i = 1 \/ CharAt(text, i - 1) \in Whitespace)})

generate_description(context, reply) ==
    LET prop == IF "property_id" \in DOMAIN context
                THEN get_property(context.property_id) ELSE EmptyDict
    IN  IF ~Truthy(prop) THEN Out(NoPropertyError, 0, <<>>)
        \* None.replace(...) in the prompt's property type
        ELSE IF Get(prop, "property_type", "House") = NONE
        THEN Out(Raised("AttributeError"), 0, <<>>)
        \* format(None, ",") in the prompt's price
        ELSE IF Get(prop, "asking_price", 0) = NoneNum
        THEN Out(Raised("TypeError"), 0, <<>>)
        ELSE Out([status |-> "success", type |-> "property_description",
                  word_count |-> WordCount(reply), content |-> reply], 1, <<>>)

generate_email(context, reply) ==
    Out([status |-> "success", type |-> "email", content |-> reply], 1, <<>>)

\* a report written whether or not the property is found
generate_report_unchecked(context, reply) ==
    Out([status |-> "success", type |-> "vendor_report", content |-> reply], 1, <<>>)

generate_report(context, reply) ==
    LET prop == IF "property_id" \in DOMAIN context
                THEN get_property(context.property_id) ELSE EmptyDict
    IN  IF ~Truthy(prop) THEN Out(NoPropertyError, 0, <<>>)
        ELSE Out([status |-> "success", type |-> "vendor_report", content |-> reply], 1, <<>>)

\* an execute that reports a failed model call as an error result
content_execute_failing(action, context, reply) ==
    IF StartsWith(reply, LlmErrorPrefix)
    THEN Out([status |-> "error", message |-> reply], 1, <<>>)
    ELSE Out([status |-> "success", type |-> "llm_content", content |-> reply], 1, <<>>)

content_execute(action, context, reply) ==
    LET a == Lower(action)
    IN  IF Contains(a, "description") THEN generate_description(context, reply)
        ELSE IF Contains(a, "email") THEN generate_email(context, reply)
        ELSE IF Contains(a, "report") THEN generate_report(context, reply)
        ELSE Out([status |-> "success", type |-> "llm_content", content |-> reply], 1, <<>>)

\* agent.execute(action, context) of the agent registered under that name
Execute(agent, action, context, reply) ==
    CASE agent = "scout" -> scout_execute(action, context, reply)
      [] agent = "intelligence" -> intelligence_execute(action, context, reply)
      [] agent = "content" -> content_execute(action, context, reply)
      [] agent = "compliance" -> compliance_execute(action, context, reply)

----------------------------------------------------------------------------
(* HumanApproval.request_approval *)

AcceptWords == {"yes", "y", "proceed", "approve"}
RejectWords == {"no", "n", "reject", "cancel"}
ModifyWords == {"modify", "m", "edit"}

\* a normalisation that trims but keeps the case
NormaliseKeepCase(line) == Strip(line)

\* input(...).strip().lower()
Normalise(line) == Lower(Strip(line))

\* One pass of the while loop on the line read: the value returned, or
\* "again" when the loop prints a message and prompts once more.
Decide(line) ==
    LET response == Normalise(line)
    IN  IF response \in AcceptWords THEN "approved"
        ELSE IF response \in RejectWords THEN "rejected"
        ELSE IF response \in ModifyWords THEN "again"
        ELSE "again"

----------------------------------------------------------------------------
(* OrchestratorAgent.analyze_query *)

Fence == "'''"
FenceJson == "'''json"

\* the text between the Markdown fences of the response, if it has any
StripFences(response) ==
    IF Contains(response, FenceJson)
    THEN SplitFirst(SplitSecond(response, FenceJson), Fence)
    ELSE IF Contains(response, Fence)
    THEN SplitFirst(SplitSecond(response, Fence), Fence)
    ELSE response

\* JSON documents the model may answer with
PlanMatchText == "{\"plan_id\": \"PLAN-012\", \"agents_required\": [\"scout\", \"intelligence\"], \"steps\": [{\"step\": 1, \"agent\": \"Scout\", \"action\": \"Find property\"}, {\"step\": 2, \"agent\": \"intelligence\", \"action\": \"Match buyers\"}, {\"step\": 3, \"agent\": \"content\", \"action\": \"Draft email\"}], \"human_approval_required\": false, \"entities_involved\": {\"buyer_id\": \"BUY-2\"}}"
PlanAmlText == "{\"plan_id\": \"PLAN-009\", \"agents_required\": [\"valuer\", \"compliance\"], \"steps\": [{\"step\": 1, \"agent\": \"Valuer\", \"action\": \"Value it\"}, {\"step\": 2, \"agent\": \"orchestrator\", \"action\": \"Summarise\"}, {\"step\": 3, \"agent\": \"COMPLIANCE\", \"action\": \"AML check\"}], \"human_approval_required\": true, \"entities_involved\": {\"vendor_id\": \"VEN-1\", \"property_id\": \"PROP-1\"}}"
PlanTemplateText == "{\"plan_id\": \"PLAN-010\", \"agents_required\": [\"scout\", \"content\"], \"parallel_groups\": 2, \"steps\": [{\"step_number\": 1, \"assigned_agent\": \"scout\", \"action\": \"Find property\"}, {\"step_number\": 2, \"assigned_agent\": \"content\", \"action\": \"Write description\"}]}"
PlanEmptyText == "{\"plan_id\": \"PLAN-013\"}"

PlanMatch ==
    [plan_id |-> "PLAN-012", agents_required |-> <<"scout", "intelligence">>,
     steps |-> <<[step |-> 1, agent |-> "Scout", action |-> "Find property"],
                 [step |-> 2, agent |-> "intelligence", action |-> "Match buyers"],
                 [step |-> 3, agent |-> "content", action |-> "Draft email"]>>,
     human_approval_required |-> FALSE,
     entities_involved |-> [buyer_id |-> "BUY-2"]]
PlanAml ==
    [plan_id |-> "PLAN-009", agents_required |-> <<"valuer", "compliance">>,
     steps |-> <<[step |-> 1, agent |-> "Valuer", action |-> "Value it"],
                 [step |-> 2, agent |-> "orchestrator", action |-> "Summarise"],
                 [step |-> 3, agent |-> "COMPLIANCE", action |-> "AML check"]>>,
     human_approval_required |-> TRUE,
     entities_involved |-> [vendor_id |-> "VEN-1", property_id |-> "PROP-1"]]
PlanTemplate ==
    [plan_id |-> "PLAN-010", agents_required |-> <<"scout", "content">>,
     parallel_groups |-> 2,
     steps |-> <<[step_number |-> 1, assigned_agent |-> "scout", action |-> "Find property"],
                 [step_number |-> 2, assigned_agent |-> "content",
                  action |-> "Write description"]>>]
PlanEmpty == [plan_id |-> "PLAN-013"]

JsonValue(kind, value) == [kind |-> kind, value |-> value]

\* json.loads on the documents above and on JSON texts that are not objects;
\* any other text is not JSON here
JsonDocs ==
    (PlanMatchText :> JsonValue("object", PlanMatch))
        @@ (PlanAmlText :> JsonValue("object", PlanAml))
        @@ (PlanTemplateText :> JsonValue("object", PlanTemplate))
        @@ (PlanEmptyText :> JsonValue("object", PlanEmpty))
        @@ ("[1, 2]" :> JsonValue("array", EmptyDict))
        @@ ("42" :> JsonValue("number", EmptyDict))
        @@ ("\"ok\"" :> JsonValue("string", EmptyDict))
        @@ ("null" :> JsonValue("null", EmptyDict))

JsonLoads(text) ==
    IF text \in DOMAIN JsonDocs THEN JsonDocs[text] ELSE Raised("JSONDecodeError")

\* the fallback plan of the except branch
DefaultPlan(query, response) ==
    [intent |-> query, workflow_type |-> "custom", plan_id |-> "CUSTOM",
     plan_name |-> "Custom Workflow", agents_required |-> <<"orchestrator">>,
     steps |-> <<[step |-> 1, agent |-> "orchestrator", action |-> "Process query"]>>,
     estimated_time_ms |-> 5000, estimated_cost_usd |-> "0.10",
     human_approval_required |-> TRUE, raw_response |-> response]

\* what call_llm may return to analyze_query
FencedJson(text) == FenceJson \o "\n" \o text \o "\n" \o Fence
Fenced(text) == "Here is the plan:\n" \o Fence \o "\n" \o text \o "\n" \o Fence \o "\nDone."

Responses ==
    {PlanMatchText, FencedJson(PlanAmlText), Fenced(PlanTemplateText),
     "  " \o PlanEmptyText \o "\n",
     "I could not build a plan", FencedJson("not json"), LlmErrorPrefix \o "timeout",
     "[1, 2]", "null", Fenced("42")}

\* The name response is rebound to the text between the fences, which is
\* stripped and given to json.loads; tabulated over the responses.
Parsed ==
    [llm_text \in Responses |->
        LET response == StripFences(llm_text)
        IN  [response |-> response, value |-> JsonLoads(Strip(response))]]

\* analyze_query from the text call_llm returned: the plan it returns, or the
\* exception that leaves it; plan.get exists on a dict only.
analyze_query(query, llm_text) ==
    LET response == Parsed[llm_text].response
        parsed == Parsed[llm_text].value
    IN  IF IsRaised(parsed) THEN DefaultPlan(query, response)
        ELSE IF parsed.kind # "object" THEN Raised("AttributeError")
        ELSE parsed.value

----------------------------------------------------------------------------
(* Inputs of the scoring calls *)

AskingPrices == {20, 100, 300000}
Budgets == {18, 19, 20, 94, 95, 100, 285000, 300000}
BuyerTypes == {"chain_free_cash", "first_time_buyer", "investor"}
PriorityLevels == {"hot", "warm"}

ScoreProperties ==
    {[property_id |-> "PROP-1", asking_price |-> a] : a \in AskingPrices}
        \cup {[property_id |-> "PROP-1"]}

ScoreBuyers ==
    {[buyer_id |-> "BUY-1", max_budget |-> b, buyer_type |-> t, priority_level |-> p] :
        b \in Budgets, t \in BuyerTypes, p \in PriorityLevels}
        \cup {[buyer_id |-> "BUY-1", buyer_type |-> t] : t \in BuyerTypes}

Snap(n, cycle) == [n |-> n, cycle |-> cycle]
NoTables == [properties |-> Snap(0, 1), vendors |-> Snap(0, 1), buyers |-> Snap(0, 1)]
Epoch == ""

AgentsIdle ==
    /\ ag_pc = "idle"
    /\ ag_req = <<>>
    /\ ag_out = <<>>

NoLoaderCall == [op |-> "", name |-> ""]

\* every table is loaded, from the files as they stand, and DataLoader has
\* not been called since
LoaderIdle ==
    /\ files = tables
    /\ reads = [n \in DOMAIN tables |-> 1]
    /\ served = NoLoaderCall

NoCall == [via |-> "", query |-> "", context |-> EmptyDict, require_approval |-> FALSE]
NoGate == [inputs |-> <<>>, returned |-> "none"]

\* the local state of an execution of process_query that has not begun
NotBegun ==
    [pc |-> "idle", call |-> NoCall, llm_response |-> "", llm_calls |-> 0,
     plan |-> EmptyDict, shared |-> EmptyDict, agents |-> {}, gate |-> NoGate,
     results |-> EmptyDict, step_idx |-> 0, invoked |-> <<>>, envelope |-> EmptyDict]

\* AgentManager.__init__, with no call of the orchestrator under way
OrchestratorIdle ==
    /\ peer = NotBegun
    /\ pc = "idle"
    /\ call = NoCall
    /\ llm_response = ""
    /\ llm_calls = 0
    /\ plan = EmptyDict
    /\ shared = EmptyDict
    /\ agents = {}
    /\ gate = NoGate
    /\ results = EmptyDict
    /\ step_idx = 0
    /\ invoked = <<>>
    /\ envelope = EmptyDict
    /\ execution_history = <<>>
    /\ calls_made = 0

NoEnv ==
    [responses |-> {}, contexts |-> {}, approvals |-> {}, inputs |-> {}, replies |-> {},
     plans |-> {}, mappings |-> {}, max_calls |-> 0]

InitScore ==
    /\ tables = NoTables
    /\ today = Epoch
    /\ AgentsIdle
    /\ LoaderIdle
    /\ OrchestratorIdle
    /\ env = NoEnv
    /\ ms_prop \in ScoreProperties
    /\ ms_calls = <<>>

\* One call _calculate_match_score(prop, buyer), as the loop of _match_buyers
\* makes for each buyer of one property.
ScoreCall ==
    /\ \E buyer \in ScoreBuyers :
          LET made == [buyer |-> buyer, score |-> calculate_match_score(ms_prop, buyer)]
          IN  ms_calls' = IF Len(ms_calls) = 0 THEN <<made>>
                          ELSE <<ms_calls[Len(ms_calls)], made>>
    /\ UNCHANGED <<tables, loaderVars, today, peer, ms_prop, agentVars, orchVars>>

NextScore == ScoreCall

SpecScore == InitScore /\ [][NextScore]_vars

----------------------------------------------------------------------------
(* The tables and the requests of the agent endpoints *)

MaxBuyers == 18
BuyerCounts == {0, 3, ScoreLimit, ScoreLimit + 1, MaxBuyers}

DemoTables ==
    [properties |-> Snap(Len(DemoProperties), 1), vendors |-> Snap(FileRows, 1),
     buyers |-> Snap(3, 1)]

TableSets ==
    {[DemoTables EXCEPT !.buyers = Snap(n, c)] : n \in BuyerCounts, c \in 1..Len(BudgetCycles)}
        \cup {[DemoTables EXCEPT !.properties = Snap(Len(DemoProperties), 2)], NoTables}

Todays == {"2023-01-01", "2024-06-01", "2024-12-31"}

ModelReplies ==
    {"APPROVED - meets CPR", "Looks fine\nAPPROVED", "REJECTED: misleading claims",
     "Approved, no issues", LlmErrorPrefix \o "timeout"}

ActionsOf(agent) ==
    CASE agent = "scout" ->
            {"Find property", "Search property listings", "Lookup vendor", "Search buyers",
             "Verify EPC", "Create CRM record", "Update portal", "", "Call the office"}
      [] agent = "intelligence" ->
            {"Match buyers", "Find matching BUYERS", "Assess risk", "Price analysis",
             "Score lead", "Summarise", "Analyze", "RISK review"}
      [] agent = "content" ->
            {"Write description", "Draft email", "Weekly report", "Write slogan"}
      [] agent = "compliance" ->
            {"AML check", "Run aml verification", "Validate content", "Validate EPC",
             "Check EPC", "Review file"}

PropertyContexts ==
    {[property_id |-> p] :
        p \in {"PROP-1", "PROP-2", "PROP-3", "PROP-4", "PROP-5", "PROP-404"}}
BuyerContexts == {[buyer_id |-> b] : b \in {"BUY-1", "BUY-2", "BUY-404"}}
VendorContexts == {[vendor_id |-> "VEN-" \o ToString(i)] : i \in 1..(FileRows + 1)}
SearchContexts ==
    {[search_criteria |-> c] :
        c \in {EmptyDict, [min_budget |-> 300000], [priority_level |-> "hot"],
               [min_price |-> 100, max_price |-> 300000]}}
ContentContexts == {[content |-> c] : c \in {"", "Stunning home, best in town"}}
FullContext == [property_id |-> "PROP-1", vendor_id |-> "VEN-1", buyer_id |-> "BUY-2"]

ContextsOf(agent) ==
    {EmptyDict, FullContext} \cup PropertyContexts \cup
    CASE agent = "scout" -> BuyerContexts \cup SearchContexts \cup {[vendor_id |-> "VEN-2"]}
      [] agent = "intelligence" -> BuyerContexts
      [] agent = "content" -> {}
      [] agent = "compliance" -> VendorContexts \cup ContentContexts

InitAgent ==
    /\ tables \in TableSets
    /\ today \in Todays
    /\ AgentsIdle
    /\ LoaderIdle
    /\ OrchestratorIdle
    /\ env = NoEnv
    /\ ms_prop = EmptyDict
    /\ ms_calls = <<>>

\* POST /agents/<agent>: agent.execute(request.action, request.context or {})
AgentAction(agent) ==
    /\ ag_pc = "idle"
    /\ \E action \in ActionsOf(agent), ctx \in ContextsOf(agent), reply \in ModelReplies :
          /\ ag_req' = [agent |-> agent, action |-> action, context |-> ctx]
          /\ ag_out' = Execute(agent, action, ctx, reply)
    /\ ag_pc' = "done"
    /\ UNCHANGED <<tables, loaderVars, today, peer, scoreVars, orchVars>>

ScoutAction == AgentAction("scout")
IntelligenceAction == AgentAction("intelligence")
ContentAction == AgentAction("content")
ComplianceAction == AgentAction("compliance")

\* The routes of api.py under /data/buyers, in the order of their decorators.
\* A path is the sequence of its segments.
BuyerRoutes ==
    <<[method |-> "GET", path |-> <<"data", "buyers">>, handler |-> "get_all_buyers"],
      [method |-> "GET", path |-> <<"data", "buyers", "{buyer_id}">>,
       handler |-> "get_buyer"],
      [method |-> "POST", path |-> <<"data", "buyers", "search">>,
       handler |-> "search_buyers"],
      [method |-> "GET", path |-> <<"data", "buyers", "hot">>,
       handler |-> "get_hot_buyers"]>>

\* a route's path matches: a segment in braces is a parameter, which any
\* non-empty segment fills
PathMatches(pattern, path) ==
    /\ Len(pattern) = Len(path)
    /\ \A i \in 1..Len(pattern) :
          \/ pattern[i] = path[i]
          \/ StartsWith(pattern[i], "{") /\ path[i] # ""

\* the router: the handler of the first route that matches path and method,
\* else 405 if some route matches the path, else 404
RouteOf(method, path) ==
    LET full == {i \in 1..Len(BuyerRoutes) :
                    PathMatches(BuyerRoutes[i].path, path)
                        /\ BuyerRoutes[i].method = method}
        partial == {i \in 1..Len(BuyerRoutes) : PathMatches(BuyerRoutes[i].path, path)}
    IN  IF full # {} THEN BuyerRoutes[Least(full)].handler
        ELSE IF partial # {} THEN "405" ELSE "404"

\* the response of the handler the router chose
HandleBuyers(handler, path, body) ==
    CASE handler = "get_all_buyers" ->
            [handler |-> handler, status_code |-> 200, data |-> Load("buyers")]
      [] handler = "get_buyer" ->
            LET data == get_buyer(path[3])
            IN  IF ~Truthy(data)
                THEN [handler |-> handler, status_code |-> 404,
                      detail |-> "Buyer not found"]
                ELSE [handler |-> handler, status_code |-> 200, data |-> <<data>>]
      [] handler = "search_buyers" ->
            [handler |-> handler, status_code |-> 200, data |-> search_buyers(body)]
      [] handler = "get_hot_buyers" ->
            [handler |-> handler, status_code |-> 200,
             data |-> search_buyers([priority_level |-> "hot"])]
      [] OTHER -> [handler |-> "", status_code |-> IF handler = "405" THEN 405 ELSE 404,
                   detail |-> "Not Found"]

BuyerRequests ==
    {[method |-> "GET", path |-> <<"data", "buyers">>, body |-> EmptyDict],
     [method |-> "GET", path |-> <<"data", "buyers", "BUY-1">>, body |-> EmptyDict],
     [method |-> "GET", path |-> <<"data", "buyers", "BUY-404">>, body |-> EmptyDict],
     [method |-> "GET", path |-> <<"data", "buyers", "hot">>, body |-> EmptyDict],
     [method |-> "GET", path |-> <<"data", "buyers", "search">>, body |-> EmptyDict],
     [method |-> "POST", path |-> <<"data", "buyers", "search">>,
      body |-> [priority_level |-> "hot"]],
     [method |-> "POST", path |-> <<"data", "buyers", "hot">>, body |-> EmptyDict],
     [method |-> "GET", path |-> <<"data", "buyers", "hot", "x">>, body |-> EmptyDict]}

\* a request to a path under /data/buyers
BuyersRequest ==
    /\ ag_pc = "idle"
    /\ \E r \in BuyerRequests :
          /\ ag_req' = [agent |-> "api", action |-> r.method, context |-> r]
          /\ ag_out' = Out(HandleBuyers(RouteOf(r.method, r.path), r.path, r.body),
                           0, <<>>)
    /\ ag_pc' = "done"
    /\ UNCHANGED <<tables, loaderVars, today, peer, scoreVars, orchVars>>

NextAgent ==
    \/ ScoutAction
    \/ IntelligenceAction
    \/ ContentAction
    \/ ComplianceAction
    \/ BuyersRequest

SpecAgent == InitAgent /\ [][NextAgent]_vars

----------------------------------------------------------------------------
(* DataLoader.load and DataLoader.reload over files that change on disk *)

MaxReads == 2

\* the names asked for; "leads" has no entry in CSV_PATHS
LoaderNames == {"properties", "buyers", "leads"}

EmptyFrame == Snap(0, 1)

\* what the files of the names can hold; an absent, empty or unreadable file
\* is a snapshot of no rows
FileVersions ==
    [properties |-> {Snap(Len(DemoProperties), 1), EmptyFrame},
     buyers |-> {Snap(3, 1), Snap(3, 2)}]

\* the table load() builds on a cache miss: the file's rows, or an empty
\* DataFrame when the name has no path, the file is absent or reading fails
ReadCsv(name) ==
    IF name \in DOMAIN files /\ files[name].n > 0 THEN files[name] ELSE EmptyFrame

\* the cache after load(name) and the number of reads after it
LoadInto(cache, name) == IF name \in DOMAIN cache THEN cache ELSE SetItem(cache, name, ReadCsv(name))

CountRead(counts, name) ==
    [n \in DOMAIN counts \cup {name} |->
        IF n = name THEN Get(counts, n, 0) + 1 ELSE counts[n]]

\* del cls._cache[name]
DelItem(d, key) == [k \in DOMAIN d \ {key} |-> d[k]]

\* reload with a name that also drops every other entry
reload_dropping_all(cache, name) == LoadInto(EmptyDict, name)

\* reload(name) for a name: the entry is deleted if present, then loaded
reload(cache, name) == LoadInto(DelItem(cache, name), name)

InitLoader ==
    /\ tables = EmptyDict
    /\ files \in [DOMAIN FileVersions -> UNION {FileVersions[n] : n \in DOMAIN FileVersions}]
    /\ \A n \in DOMAIN FileVersions : files[n] \in FileVersions[n]
    /\ reads = EmptyDict
    /\ served = NoLoaderCall
    /\ today = Epoch
    /\ ag_pc = "idle"
    /\ ag_req = <<>>
    /\ ag_out = <<>>
    /\ OrchestratorIdle
    /\ env = NoEnv
    /\ ms_prop = EmptyDict
    /\ ms_calls = <<>>

\* DataLoader.load(name)
LoadCall ==
    /\ \E name \in LoaderNames :
          /\ name \notin DOMAIN tables => Get(reads, name, 0) < MaxReads
          /\ tables' = LoadInto(tables, name)
          /\ reads' = IF name \in DOMAIN tables THEN reads ELSE CountRead(reads, name)
          /\ served' = [op |-> "load", name |-> name, table |-> tables'[name]]
    /\ UNCHANGED <<files, today, peer, scoreVars, agentVars, orchVars>>

\* DataLoader.reload(name) with a name
ReloadCall ==
    /\ \E name \in LoaderNames :
          /\ Get(reads, name, 0) < MaxReads
          /\ tables' = reload(tables, name)
          /\ reads' = CountRead(reads, name)
          /\ served' = [op |-> "reload", name |-> name]
    /\ UNCHANGED <<files, today, peer, scoreVars, agentVars, orchVars>>

\* DataLoader.reload() without a name
ReloadAllCall ==
    /\ tables' = EmptyDict
    /\ served' = [op |-> "reload", name |-> NONE]
    /\ UNCHANGED <<files, reads, today, peer, scoreVars, agentVars, orchVars>>

\* a file is rewritten, removed or restored outside the program
FileChange ==
    /\ \E name \in DOMAIN FileVersions :
       \E v \in FileVersions[name] :
          /\ files[name] # v
          /\ files' = [files EXCEPT ![name] = v]
    /\ UNCHANGED <<tables, reads, served, today, peer, scoreVars, agentVars, orchVars>>

NextLoader ==
    \/ LoadCall
    \/ ReloadCall
    \/ ReloadAllCall
    \/ FileChange

SpecLoader == InitLoader /\ [][NextLoader]_vars

----------------------------------------------------------------------------
(* OrchestratorAgent.execute_plan *)

SkippedResult(agent_name) ==
    [status |-> "skipped", reason |-> "Agent " \o agent_name \o " not available"]

\* a chain that tests the name only, not the mapping
DispatchedByName(agent_name, mapping) ==
    agent_name \in {"scout", "intelligence", "content", "compliance"}

\* the conditions of the if/elif chain: some agent's execute is called
Dispatched(agent_name, mapping) ==
    \/ agent_name = "scout" /\ "scout" \in mapping
    \/ agent_name = "intelligence" /\ "intelligence" \in mapping
    \/ agent_name = "content" /\ "content" \in mapping
    \/ agent_name = "compliance" /\ "compliance" \in mapping

\* a dispatch that lets any key of the mapping answer through the model
DispatchToMapped(agent_name, action, context, reply, mapping) ==
    IF agent_name \in mapping
    THEN Out([status |-> "success", type |-> "llm_response", response |-> reply], 1, <<>>)
    ELSE Out(SkippedResult(agent_name), 0, <<>>)

\* the result of one step
Dispatch(agent_name, action, context, reply, mapping) ==
    IF Dispatched(agent_name, mapping)
    THEN Execute(agent_name, action, context, reply)
    ELSE Out(SkippedResult(agent_name), 0, <<>>)

StepKey(step_num) == "step_" \o ToString(step_num) \o "_result"

Steps == Get(plan, "steps", <<>>)

\* plan p as it reads when the dict its "context" key refers to holds ctx
Aliased(p, ctx) == IF "context" \in DOMAIN p THEN SetItem(p, "context", ctx) ELSE p

\* execute_plan(p, mapping) up to its loop.  The context dict is the one held
\* in p["context"], so updating it updates the plan; a plan without that key
\* gets a new dict that the plan does not refer to.
BeginExecution(p, mapping) ==
    /\ results' = [plan_id |-> Get(p, "plan_id", NONE), started_at |-> today,
                   steps_completed |-> <<>>, final_output |-> NONE,
                   status |-> "in_progress"]
    /\ shared' = Update(Get(p, "context", EmptyDict),
                        Get(p, "entities_involved", EmptyDict))
    /\ plan' = Aliased(p, shared')
    /\ agents' = mapping
    /\ step_idx' = 1
    /\ pc' = "loop"

\* one iteration of the loop over the steps
ExecuteStep ==
    /\ pc = "loop"
    /\ step_idx <= Len(Steps)
    /\ \E reply \in env.replies :
          LET step == Steps[step_idx]
              step_num == Get(step, "step", 0)
              agent_name == Lower(Get(step, "agent", ""))
              action == Get(step, "action", "")
              out == Dispatch(agent_name, action, shared, reply, agents)
          IN  /\ invoked' =
                    IF Dispatched(agent_name, agents)
                    THEN Append(invoked, [at |-> step_idx, agent |-> agent_name,
                                          action |-> action])
                    ELSE invoked
              /\ llm_calls' = llm_calls + out.llm_calls
              /\ IF IsRaised(out.result)
                 THEN /\ pc' = "raised"
                      /\ envelope' = [raised |-> out.result.raised, from |-> "execute_plan"]
                      /\ UNCHANGED <<plan, shared, results, step_idx>>
                 ELSE /\ results' =
                            [results EXCEPT !.steps_completed =
                                Append(@, [step |-> step_num, agent |-> agent_name,
                                           action |-> action, result |-> out.result])]
                      /\ shared' = SetItem(shared, StepKey(step_num), out.result)
                      /\ plan' = Aliased(plan, shared')
                      /\ step_idx' = step_idx + 1
                      /\ UNCHANGED <<pc, envelope>>
    /\ UNCHANGED <<tables, loaderVars, today, peer, scoreVars, agentVars, env, call, llm_response, agents,
                   gate, execution_history, calls_made>>

\* an entry put in front of the list
PrependHistory(history, entry) == <<entry>> \o history

\* self.execution_history.append(entry)
AppendHistory(history, entry) == Append(history, entry)

\* the end of execute_plan and, for a call through process_query, the rest
\* of process_query
FinishExecution ==
    /\ pc = "loop"
    /\ step_idx > Len(Steps)
    /\ LET done == SetItem(SetItem(results, "completed_at", today), "status", "completed")
       IN  /\ results' = done
           /\ IF call.via = "process_query"
              THEN /\ execution_history' =
                        AppendHistory(execution_history,
                                      [query |-> call.query, plan |-> plan,
                                       results |-> done, timestamp |-> today])
                   /\ envelope' = [status |-> "completed", plan |-> plan, results |-> done]
              ELSE UNCHANGED <<execution_history, envelope>>
    /\ pc' = "returned"
    /\ UNCHANGED <<tables, loaderVars, today, peer, scoreVars, agentVars, env, call, llm_response, llm_calls,
                   plan, shared, agents, gate, step_idx, invoked, calls_made>>

----------------------------------------------------------------------------
(* AgentManager.process_query *)

MaxPrompts == 2

ManagerAgents == {"orchestrator", "scout", "intelligence", "content", "compliance"}

QueryTexts == <<"Find buyers for 12 Oak Road", "">>
QueryText(n) == QueryTexts[((n - 1) % Len(QueryTexts)) + 1]

AtRest == pc \in {"idle", "returned", "raised"}

\* process_query up to the approval gate: the model is called once, by
\* analyze_query
ProcessQuery ==
    /\ AtRest
    /\ calls_made < env.max_calls
    /\ \E ctx \in env.contexts, req \in env.approvals, text \in env.responses :
          LET query == QueryText(calls_made + 1)
              analysis == analyze_query(query, text)
          IN  /\ call' = [via |-> "process_query", query |-> query, context |-> ctx,
                          require_approval |-> req]
              /\ llm_response' = text
              /\ IF IsRaised(analysis)
                 THEN /\ pc' = "raised"
                      /\ plan' = EmptyDict
                      /\ envelope' = [raised |-> analysis.raised, from |-> "analyze_query"]
                 ELSE /\ pc' = IF req THEN "gate" ELSE "execute"
                      /\ plan' = SetItem(SetItem(analysis, "context", ctx),
                                         "original_query", query)
                      /\ envelope' = EmptyDict
    /\ llm_calls' = 1
    /\ shared' = EmptyDict
    /\ agents' = {}
    /\ gate' = NoGate
    /\ results' = EmptyDict
    /\ step_idx' = 0
    /\ invoked' = <<>>
    /\ calls_made' = calls_made + 1
    /\ UNCHANGED <<tables, loaderVars, today, peer, scoreVars, agentVars, env, execution_history>>

\* a process_query that ignores what the gate returned
GateOutcomeAlwaysRun(decision) == IF decision = "again" THEN "gate" ELSE "execute"

\* where process_query goes on what request_approval did with the line read
GateOutcome(decision) ==
    CASE decision = "approved" -> "execute"
      [] decision = "rejected" -> "returned"
      [] decision = "again" -> "gate"

\* request_approval reads one line from the console
ReadInput ==
    /\ pc = "gate"
    /\ \E line \in env.inputs :
          LET decision == Decide(line)
          IN  /\ decision = "again" => Len(gate.inputs) < MaxPrompts
              /\ gate' = [inputs |-> Append(gate.inputs, line),
                          returned |-> IF decision = "again" THEN "none" ELSE decision]
              /\ pc' = GateOutcome(decision)
              /\ envelope' =
                    IF pc' = "returned"
                    THEN [status |-> "rejected", message |-> "Plan rejected", plan |-> plan]
                    ELSE envelope
    /\ UNCHANGED <<tables, loaderVars, today, peer, scoreVars, agentVars, env, call, llm_response, llm_calls,
                   plan, shared, agents, results, step_idx, invoked, execution_history,
                   calls_made>>

\* self.orchestrator.execute_plan(plan, self.agents)
StartExecution ==
    /\ pc = "execute"
    /\ BeginExecution(plan, ManagerAgents)
    /\ UNCHANGED <<tables, loaderVars, today, peer, scoreVars, agentVars, env, call, llm_response, llm_calls,
                   gate, invoked, envelope, execution_history, calls_made>>

\* execute_plan called with a plan and an agent mapping of the caller's own
ExecutePlanCall ==
    /\ AtRest
    /\ calls_made < env.max_calls
    /\ \E p \in env.plans, mapping \in env.mappings :
          /\ call' = [via |-> "execute_plan", query |-> "",
                      context |-> Get(p, "context", EmptyDict),
                      require_approval |-> FALSE]
          /\ BeginExecution(p, mapping)
    /\ llm_response' = ""
    /\ llm_calls' = 0
    /\ gate' = NoGate
    /\ invoked' = <<>>
    /\ envelope' = EmptyDict
    /\ calls_made' = calls_made + 1
    /\ UNCHANGED <<tables, loaderVars, today, peer, scoreVars, agentVars, env, execution_history>>

\* DELETE /history.  The handlers run on one event loop and process_query
\* does not yield to it, so no other request is served while a query is
\* being processed.
ClearHistory ==
    /\ AtRest
    /\ execution_history' = <<>>
    /\ UNCHANGED <<tables, loaderVars, today, peer, scoreVars, agentVars, env, pc, call, llm_response,
                   llm_calls, plan, shared, agents, gate, results, step_idx, invoked,
                   envelope, calls_made>>

----------------------------------------------------------------------------
(* The calls of the orchestrator *)

CallContexts == {EmptyDict, [property_id |-> "PROP-1"], [property_id |-> "PROP-2"]}

ConsoleLines == {"yes", "no", "modify"}

StepReplies == {"Dear buyer, a new home awaits", LlmErrorPrefix \o "timeout"}

\* a caller's plan whose steps carry no "step" key and which has no "context"
PlanUnnumbered ==
    [plan_id |-> "PLAN-014",
     steps |-> <<[agent |-> "scout", action |-> "Find property"],
                 [agent |-> "compliance", action |-> "AML check"]>>,
     entities_involved |-> [vendor_id |-> "VEN-1"]]

CallerPlans ==
    {SetItem(p, "context", [property_id |-> "PROP-1"]) : p \in {PlanMatch, PlanAml}}
        \cup {PlanUnnumbered, PlanEmpty}

CallerMappings == {{"scout"}, {"orchestrator", "content", "compliance"}}

MaxCalls == 1

MainEnv ==
    [responses |-> Responses, contexts |-> CallContexts, approvals |-> BOOLEAN,
     inputs |-> ConsoleLines, replies |-> StepReplies, plans |-> CallerPlans,
     mappings |-> CallerMappings, max_calls |-> MaxCalls]

Today == "2024-06-01"

Init ==
    /\ tables = DemoTables
    /\ today = Today
    /\ AgentsIdle
    /\ LoaderIdle
    /\ ms_prop = EmptyDict
    /\ ms_calls = <<>>
    /\ OrchestratorIdle
    /\ env = MainEnv

Next ==
    \/ ProcessQuery
    \/ ReadInput
    \/ StartExecution
    \/ ExecutePlanCall
    \/ ExecuteStep
    \/ FinishExecution

Spec == Init /\ [][Next]_vars

----------------------------------------------------------------------------
(* Successive calls of process_query *)

MaxQueries == 2

ManagerEnv ==
    [responses |-> {PlanMatchText, FencedJson("not json"), "null"},
     contexts |-> {[property_id |-> "PROP-1"], [property_id |-> "PROP-2"]},
     approvals |-> BOOLEAN, inputs |-> ConsoleLines,
     replies |-> {"Dear buyer, a new home awaits"}, plans |-> {}, mappings |-> {},
     max_calls |-> MaxQueries]

InitManager ==
    /\ tables = DemoTables
    /\ today = Today
    /\ AgentsIdle
    /\ LoaderIdle
    /\ ms_prop = EmptyDict
    /\ ms_calls = <<>>
    /\ OrchestratorIdle
    /\ env = ManagerEnv

NextManager ==
    \/ ProcessQuery
    \/ ReadInput
    \/ StartExecution
    \/ ExecuteStep
    \/ FinishExecution
    \/ ClearHistory

SpecManager == InitManager /\ [][NextManager]_vars

----------------------------------------------------------------------------
(* The lines typed at the approval prompt *)

AcceptLines == {"yes", " Yes ", "Y", "proceed", "APPROVE\t"}
RejectLines == {"no", "N", " reject", "Cancel"}
ModifyLines == {"modify", "M", "Edit "}
OtherLines == {"", "maybe", "yes please", "ye s"}

ApprovalEnv ==
    [responses |-> {FencedJson(PlanAmlText), "I could not build a plan"},
     contexts |-> {EmptyDict}, approvals |-> {TRUE},
     inputs |-> AcceptLines \cup RejectLines \cup ModifyLines \cup OtherLines,
     replies |-> {"Dear buyer, a new home awaits"}, plans |-> {}, mappings |-> {},
     max_calls |-> MaxCalls]

InitApproval ==
    /\ tables = DemoTables
    /\ today = Today
    /\ AgentsIdle
    /\ LoaderIdle
    /\ ms_prop = EmptyDict
    /\ ms_calls = <<>>
    /\ OrchestratorIdle
    /\ env = ApprovalEnv

SpecApproval == InitApproval /\ [][NextManager]_vars

----------------------------------------------------------------------------
(* Two executions of process_query on one AgentManager, called from two    *)
(* threads.  What one execution holds in the locals of process_query and   *)
(* execute_plan (plan, context, results, the loop's position) is its own;  *)
(* the manager's execution_history and the DataLoader's tables are shared. *)
(* Each call has a context dict of its own, as every /query request has.   *)

MaxPairCalls == 2

\* the local state of the execution that is running
Running ==
    [pc |-> pc, call |-> call, llm_response |-> llm_response, llm_calls |-> llm_calls,
     plan |-> plan, shared |-> shared, agents |-> agents, gate |-> gate,
     results |-> results, step_idx |-> step_idx, invoked |-> invoked,
     envelope |-> envelope]

\* a context kept in one place for both executions, whichever runs
ContextOfManager(execution) == shared

\* the context dict an execution holds in the local of its execute_plan
ContextOf(execution) == execution.shared

\* the scheduler takes the running thread off and puts the other one on
Switch ==
    /\ peer' = Running
    /\ pc' = peer.pc
    /\ call' = peer.call
    /\ llm_response' = peer.llm_response
    /\ llm_calls' = peer.llm_calls
    /\ plan' = peer.plan
    /\ shared' = ContextOf(peer)
    /\ agents' = peer.agents
    /\ gate' = peer.gate
    /\ results' = peer.results
    /\ step_idx' = peer.step_idx
    /\ invoked' = peer.invoked
    /\ envelope' = peer.envelope
    /\ UNCHANGED <<tables, loaderVars, today, scoreVars, agentVars, env,
                   execution_history, calls_made>>

PairEnv ==
    [responses |-> {PlanMatchText, FencedJson(PlanAmlText)},
     contexts |-> {[property_id |-> "PROP-1"], [property_id |-> "PROP-3"]},
     approvals |-> {FALSE}, inputs |-> {},
     replies |-> {"Dear buyer, a new home awaits"}, plans |-> {}, mappings |-> {},
     max_calls |-> MaxPairCalls]

InitPair ==
    /\ tables = DemoTables
    /\ today = Today
    /\ AgentsIdle
    /\ LoaderIdle
    /\ ms_prop = EmptyDict
    /\ ms_calls = <<>>
    /\ OrchestratorIdle
    /\ env = PairEnv

NextPair ==
    \/ ProcessQuery
    \/ StartExecution
    \/ ExecuteStep
    \/ FinishExecution
    \/ Switch

SpecPair == InitPair /\ [][NextPair]_vars

----------------------------------------------------------------------------
(* Properties of the orchestrator *)

Recorded == IF Truthy(results) THEN results.steps_completed ELSE <<>>

\* the lower-cased agent name execute_plan reads from step k of the plan
NameOf(k) == Lower(Get(Steps[k], "agent", ""))

InvokedAt(k) == \E i \in 1..Len(invoked) : invoked[i].at = k

\* C1: once execute_plan has initialised its result, either it is still in its
\* loop and the status is "in_progress", or it has returned and the status is
\* "completed"; it is never left in any other way, whatever the plan and the
\* agent mapping, and the status takes no other value.
C1_AlwaysReturnsCompleted ==
    Truthy(results) =>
        \/ pc = "loop" /\ results.status = "in_progress"
        \/ pc = "returned" /\ results.status = "completed"

\* C2: a step whose lower-cased agent name is not a key of the agent mapping
\* given to execute_plan is recorded with exactly the result
\* {status: "skipped", reason: "Agent <name> not available"}, no agent's
\* execute is called for it, and the loop goes on: the recorded steps are
\* always the steps before the loop position, all steps are recorded when
\* execute_plan returns, and an exception leaves execute_plan only at a step
\* whose agent is in the mapping.
C2_UnavailableAgentSkipped ==
    /\ \A k \in 1..Len(Recorded) :
          NameOf(k) \notin agents =>
              /\ Recorded[k].agent = NameOf(k)
              /\ ~InvokedAt(k)
              /\ DOMAIN Recorded[k].result = {"status", "reason"}
              /\ Recorded[k].result.status = "skipped"
              /\ Recorded[k].result.reason = "Agent " \o NameOf(k) \o " not available"
    /\ pc = "loop" => step_idx = Len(Recorded) + 1
    /\ (pc = "returned" /\ Truthy(results)) => Len(Recorded) = Len(Steps)
    /\ (pc = "raised" /\ Truthy(results)) => NameOf(step_idx) \in agents

\* a scout step skipped because the caller's mapping has no scout, and a
\* later step of the same plan carried out by an agent of the mapping
C2_Witness ==
    /\ pc = "returned"
    /\ call.via = "execute_plan"
    /\ \E k \in 1..Len(Recorded) :
          /\ NameOf(k) = "scout"
          /\ "scout" \notin agents
          /\ Recorded[k].result.status = "skipped"
          /\ \E j \in (k + 1)..Len(Recorded) : InvokedAt(j)

C3_Gate ==
    /\ (call.via = "process_query" /\ call.require_approval /\ gate.returned # "approved")
          => (pc \notin {"execute", "loop"} /\ invoked = <<>> /\ ~Truthy(results))
    /\ gate.returned = "rejected" =>
          /\ pc = "returned"
          /\ invoked = <<>>
          /\ DOMAIN envelope = {"status", "message", "plan"}
          /\ envelope.status = "rejected"
          /\ envelope.plan = plan

\* C3: in a call of process_query with require_approval true no agent's
\* execute is called and execute_plan is not entered unless the approval gate
\* has returned true; when the gate returns false the call returns an envelope
\* with status "rejected" and the plan, without results, no agent has been
\* invoked, and no step of the call up to there has changed the history.
C3_ApprovalGate ==
    /\ []C3_Gate
    /\ [][(pc = "gate" \/ pc' = "gate") => execution_history' = execution_history]_vars

\* a call rejected at the second prompt, after an earlier call was recorded
C3_Witness ==
    /\ gate.returned = "rejected"
    /\ Len(gate.inputs) = 2
    /\ Len(execution_history) = 1
    /\ envelope.status = "rejected"

DecidingLines == AcceptLines \cup RejectLines

C4_Decision ==
    LET n == Len(gate.inputs)
    IN  /\ gate.returned = "none" => \A i \in 1..n : gate.inputs[i] \notin DecidingLines
        /\ gate.returned # "none" =>
              /\ n >= 1
              /\ \A i \in 1..(n - 1) : gate.inputs[i] \notin DecidingLines
              /\ gate.inputs[n] \in DecidingLines
              /\ gate.returned = "approved" <=> gate.inputs[n] \in AcceptLines
              /\ gate.returned = "rejected" <=> gate.inputs[n] \in RejectLines

\* C4: request_approval returns only on a line that, trimmed and lower-cased,
\* is yes, y, proceed or approve (it returns true) or no, n, reject or cancel
\* (it returns false); the line it returns on is the first such line read.
\* Any other line, modify, m and edit included, leaves it at the prompt and
\* changes nothing but the count of lines read.
C4_ApprovalDecision ==
    /\ []C4_Decision
    /\ [][(pc = "gate" /\ pc' = "gate") =>
            /\ gate'.returned = "none"
            /\ gate'.inputs[Len(gate'.inputs)] \notin DecidingLines
            /\ UNCHANGED <<call, plan, results, step_idx, invoked, envelope,
                           execution_history, llm_calls>>]_vars

\* approval given on " Yes " after a modify line and an unrecognised line
C4_Witness ==
    /\ gate.returned = "approved"
    /\ Len(gate.inputs) = 3
    /\ gate.inputs[1] \in ModifyLines
    /\ gate.inputs[2] \in OtherLines
    /\ gate.inputs[3] = " Yes "

\* the model's response did not parse: analyze_query returned the fallback plan
FellBack == Truthy(plan) /\ "raw_response" \in DOMAIN plan

\* C5: when the response does not parse, analyze_query has called the model
\* once only and the plan is the fallback plan: plan_id "CUSTOM", workflow_type
\* "custom", the single step {step 1, agent "orchestrator", action "Process
\* query"}, human_approval_required true, and raw_response the response the
\* model gave.
C5_FallbackPlanKeepsResponse ==
    FellBack =>
        /\ pc \in {"gate", "execute"} => llm_calls = 1
        /\ plan.plan_id = "CUSTOM"
        /\ plan.workflow_type = "custom"
        /\ plan.steps = <<[step |-> 1, agent |-> "orchestrator", action |-> "Process query"]>>
        /\ plan.human_approval_required = TRUE
        /\ plan.raw_response = llm_response

\* C6: whatever text the model returns, analyze_query returns a plan mapping
\* to process_query and no exception leaves it.
C6_AnalyzeNeverRaises ==
    (call.via = "process_query") =>
        /\ Get(envelope, "from", "") # "analyze_query"
        /\ Truthy(plan)

EntryKeys == {"query", "plan", "results", "timestamp"}

\* a step in which a call of process_query returns an envelope "completed"
CompletesCall ==
    /\ call.via = "process_query"
    /\ pc # "returned"
    /\ pc' = "returned"
    /\ envelope'.status = "completed"

C11_Entries ==
    /\ Len(execution_history) <= calls_made
    /\ \A i \in 1..Len(execution_history) :
          /\ DOMAIN execution_history[i] = EntryKeys
          /\ execution_history[i].results.status = "completed"

\* C11: every step in which a process_query call returns "completed" appends
\* to the history one entry holding that call's query, plan, results and a
\* timestamp, behind the entries already there; every other step of a call
\* leaves the history as it is; the only other change is a clear, between
\* calls, which empties the list.  So the history always holds, in call
\* order, one entry for each completed call since the last clear.
C11_HistoryAppendOnly ==
    /\ []C11_Entries
    /\ [][IF CompletesCall
          THEN execution_history' =
                  Append(execution_history,
                         [query |-> call.query, plan |-> plan', results |-> results',
                          timestamp |-> today])
          ELSE \/ execution_history' = execution_history
               \/ /\ Len(execution_history') = 0
                  /\ AtRest
                  /\ UNCHANGED <<pc, call, envelope, calls_made>>]_vars

\* two completed calls recorded in call order
C11_Witness ==
    /\ Len(execution_history) = 2
    /\ execution_history[1].query = QueryText(1)
    /\ execution_history[2].query = QueryText(2)
    /\ envelope.status = "completed"

----------------------------------------------------------------------------
(* Properties of the match score *)

BudgetOf(buyer) == Get(buyer, "max_budget", 0)

SameKind(b1, b2) ==
    /\ Get(b1, "buyer_type", "") = Get(b2, "buyer_type", "")
    /\ Get(b1, "priority_level", NONE) = Get(b2, "priority_level", NONE)

\* C7: every match score lies in [50, 100], and of two buyers of the same
\* buyer_type and priority_level scored against the same property, the one
\* with the smaller or equal max_budget never has the larger score.
C7_ScoreBoundedMonotone ==
    /\ \A i \in 1..Len(ms_calls) : ms_calls[i].score \in 50..100
    /\ \A i, j \in 1..Len(ms_calls) :
          (SameKind(ms_calls[i].buyer, ms_calls[j].buyer)
             /\ BudgetOf(ms_calls[i].buyer) <= BudgetOf(ms_calls[j].buyer))
          => ms_calls[i].score <= ms_calls[j].score

\* two buyers alike but for the budget, one below 95% of the asking price and
\* one at the asking price, scored 50 and 70
C7_Witness ==
    /\ Len(ms_calls) = 2
    /\ Get(ms_prop, "asking_price", 0) = 300000
    /\ SameKind(ms_calls[1].buyer, ms_calls[2].buyer)
    /\ BudgetOf(ms_calls[1].buyer) = 100
    /\ BudgetOf(ms_calls[2].buyer) = 300000
    /\ ms_calls[1].score = 50
    /\ ms_calls[2].score = 70

----------------------------------------------------------------------------
(* Properties of the agents' methods, seen at the agent endpoints *)

Called(agent, actions) ==
    /\ ag_pc = "done"
    /\ ag_req.agent = agent
    /\ ag_req.action \in actions

\* the rows of a table whose key column holds the id the request's context gives
StoredRows(name, key) ==
    IF key \in DOMAIN ag_req.context
    THEN SelectSeq(Load(name), LAMBDA r : r[key] = ag_req.context[key])
    ELSE <<>>

\* C8: for a stored vendor the AML check succeeds with aml_passed true exactly
\* when aml_status is "verified" and pep_check and sanctions_check are "clear".
C8_AmlPassedIffAllThree ==
    (Called("compliance", {"AML check", "Run aml verification"})
        /\ Len(StoredRows("vendors", "vendor_id")) > 0)
    => LET v == StoredRows("vendors", "vendor_id")[1]
       IN  /\ ag_out.result.status = "success"
           /\ ag_out.result.aml_passed =
                 (v.aml_status = "verified" /\ v.pep_check = "clear"
                    /\ v.sanctions_check = "clear")

\* a vendor verified and clear of sanctions but flagged as a PEP fails the check
C8_Witness ==
    /\ Called("compliance", {"AML check"})
    /\ Len(StoredRows("vendors", "vendor_id")) > 0
    /\ LET v == StoredRows("vendors", "vendor_id")[1]
       IN  v.aml_status = "verified" /\ v.pep_check = "flagged" /\ v.sanctions_check = "clear"
    /\ ag_out.result.status = "success"
    /\ ag_out.result.aml_passed = FALSE

\* the buyers of the table within the budget band of asking price a, in table order
InBand(a) ==
    SelectSeq(Load("buyers"),
              LAMBDA r : 10 * r.max_budget >= 10 * ((9 * a) \div 10)
                         /\ 10 * r.max_budget <= 10 * ((12 * a) \div 10))

\* the place of a buyer id in a sequence of buyer rows
PlaceOf(rows, id) == CHOOSE i \in 1..Len(rows) : rows[i].buyer_id = id

MatchCalled ==
    /\ Called("intelligence", {"Match buyers", "Find matching BUYERS"})
    /\ Len(StoredRows("properties", "property_id")) > 0
    /\ StoredRows("properties", "property_id")[1].asking_price # NoneNum

\* C9: buyer matching of a stored property with asking price A searches with
\* min_budget = floor(0.9 A) and max_budget = floor(1.2 A), scores the first
\* 15 results at most, reports their number as matches_found, and returns the
\* 5 best at most, highest score first, equal scores in search order.
C9_MatchBuyers ==
    MatchCalled =>
    LET a == StoredRows("properties", "property_id")[1].asking_price
        prop == StoredRows("properties", "property_id")[1]
        found == InBand(a)
        scored == Take(found, 15)
        top == ag_out.result.top_matches
        Before(x, y) ==     \* x is ranked before y
            \/ x.score > y.score
            \/ x.score = y.score /\ PlaceOf(scored, x.buyer_id) < PlaceOf(scored, y.buyer_id)
    IN  /\ Len(ag_out.searches) = 1
        /\ 10 * ag_out.searches[1].min_budget <= 9 * a
        /\ 10 * (ag_out.searches[1].min_budget + 1) > 9 * a
        /\ 10 * ag_out.searches[1].max_budget <= 12 * a
        /\ 10 * (ag_out.searches[1].max_budget + 1) > 12 * a
        /\ (a = 300000 =>
               /\ ag_out.searches[1] = [min_budget |-> 270000, max_budget |-> 360000]
               /\ \A i \in 1..Len(Load("buyers")) :
                     Load("buyers")[i].max_budget \in {280000, 305000, 350000}
                     => \E k \in 1..Len(found) : found[k] = Load("buyers")[i])
        /\ ag_out.result.status = "success"
        /\ ag_out.result.matches_found = Len(scored)
        /\ Len(top) = Min(5, Len(scored))
        /\ \A i \in 1..Len(top) :
              \E k \in 1..Len(scored) :
                 /\ scored[k].buyer_id = top[i].buyer_id
                 /\ top[i].score = calculate_match_score(prop, scored[k])
        /\ \A i, j \in 1..Len(top) : i < j => Before(top[i], top[j])
        /\ \A k \in 1..Len(scored) :
              (\A i \in 1..Len(top) : top[i].buyer_id # scored[k].buyer_id)
              => \A i \in 1..Len(top) :
                    Before(top[i], [buyer_id |-> scored[k].buyer_id,
                                    score |-> calculate_match_score(prop, scored[k])])

\* more than 15 buyers in the band of the 300000 property: 15 scored, 5
\* returned, two of them of equal score
C9_Witness ==
    /\ MatchCalled
    /\ StoredRows("properties", "property_id")[1].asking_price = 300000
    /\ Len(InBand(300000)) > 15
    /\ ag_out.result.matches_found = 15
    /\ Len(ag_out.result.top_matches) = 5
    /\ ag_out.result.top_matches[1].score = ag_out.result.top_matches[2].score

\* the calendar day of an ISO date string YYYY-MM-DD, as the number YYYYMMDD
Digit(s, i) == CodeRank[CharAt(s, i)] - CodeRank["0"]
DateNum(s) ==
    10000 * (1000 * Digit(s, 1) + 100 * Digit(s, 2) + 10 * Digit(s, 3) + Digit(s, 4))
    + 100 * (10 * Digit(s, 6) + Digit(s, 7))
    + 10 * Digit(s, 9) + Digit(s, 10)

EpcCalled ==
    /\ Called("compliance", {"Check EPC"})
    /\ Len(StoredRows("properties", "property_id")) > 0

\* C10: EPC validation of a stored property gives epc_valid true exactly when
\* the property has an expiry date and that date is after today.
C10_EpcValidIffLater ==
    EpcCalled =>
    LET expiry == Get(StoredRows("properties", "property_id")[1], "epc_expiry", "")
    IN  /\ ag_out.result.status = "success"
        /\ ag_out.result.epc_valid =
              (expiry # NONE /\ expiry # "" /\ DateNum(expiry) > DateNum(today))
        /\ (expiry = today => ag_out.result.epc_valid = FALSE)

\* the expiry 2023-01-01 seen on 2024-06-01 is not valid
C10_Witness ==
    /\ EpcCalled
    /\ today = "2024-06-01"
    /\ Get(StoredRows("properties", "property_id")[1], "epc_expiry", "") = "2023-01-01"
    /\ ag_out.result.epc_valid = FALSE

\* actions holding none of the agent's keywords
UnmatchedActions(agent) ==
    CASE agent = "scout" -> {"", "Call the office"}
      [] agent = "intelligence" -> {"Summarise", "Analyze"}
      [] agent = "content" -> {"Write slogan"}
      [] agent = "compliance" -> {"Review file"}

LlmType(agent) ==
    CASE agent = "scout" -> "llm_response"
      [] agent = "intelligence" -> "llm_analysis"
      [] agent = "content" -> "llm_content"
      [] agent = "compliance" -> "llm_compliance"

\* the key under which the agent returns the model's text
LlmField(agent) ==
    CASE agent = "scout" -> "response"
      [] agent = "intelligence" -> "analysis"
      [] agent = "content" -> "content"
      [] agent = "compliance" -> "response"

SpecialistNames == {"scout", "intelligence", "content", "compliance"}

\* C12: an action holding none of the agent's keywords makes each of the four
\* agents call the model once and return, without raising, status "success"
\* with type llm_response, llm_analysis, llm_content or llm_compliance and
\* the model's text; the text is the one call_llm returned, be it an answer
\* or "Error calling LLM: <message>".
C12_UnmatchedActionFallsBack ==
    \A agent \in SpecialistNames :
        Called(agent, UnmatchedActions(agent)) =>
            /\ ~IsRaised(ag_out.result)
            /\ DOMAIN ag_out.result = {"status", "type", LlmField(agent)}
            /\ ag_out.result.status = "success"
            /\ ag_out.result.type = LlmType(agent)
            /\ ag_out.result[LlmField(agent)] \in ModelReplies
            /\ ag_out.llm_calls = 1

\* the content agent asked for a slogan while the model call fails
C12_Witness ==
    /\ Called("content", {"Write slogan"})
    /\ ag_out.result.status = "success"
    /\ ag_out.result.type = "llm_content"
    /\ ag_out.result.content = LlmErrorPrefix \o "timeout"

\* the methods that need a stored record: the actions that reach them, and
\* the table and key of the record
RecordMethods ==
    {[agent |-> "intelligence", actions |-> {"Match buyers", "Find matching BUYERS"},
      table |-> "properties", key |-> "property_id"],
     [agent |-> "intelligence", actions |-> {"Price analysis"},
      table |-> "properties", key |-> "property_id"],
     [agent |-> "content", actions |-> {"Write description"},
      table |-> "properties", key |-> "property_id"],
     [agent |-> "content", actions |-> {"Weekly report"},
      table |-> "properties", key |-> "property_id"],
     [agent |-> "compliance", actions |-> {"Check EPC"},
      table |-> "properties", key |-> "property_id"],
     [agent |-> "compliance", actions |-> {"AML check", "Run aml verification"},
      table |-> "vendors", key |-> "vendor_id"]}

\* C13: buyer matching, price analysis, description and report generation,
\* EPC validation and the AML check, called with a context that lacks the id
\* they need or whose id names no stored record, return without raising a
\* result of status "error" with a message, and call the model not at all.
C13_MissingRecordIsErrorResult ==
    \A m \in RecordMethods :
        (Called(m.agent, m.actions) /\ Len(StoredRows(m.table, m.key)) = 0) =>
            /\ ~IsRaised(ag_out.result)
            /\ DOMAIN ag_out.result = {"status", "message"}
            /\ ag_out.result.status = "error"
            /\ Len(ag_out.result.message) > 0
            /\ ag_out.llm_calls = 0

\* a weekly report asked for a property id that names no stored property
C13_Witness ==
    /\ Called("content", {"Weekly report"})
    /\ "property_id" \in DOMAIN ag_req.context
    /\ Len(Load("properties")) > 0
    /\ Len(StoredRows("properties", "property_id")) = 0
    /\ ag_out.result.status = "error"

HotBuyers == SelectSeq(Load("buyers"), LAMBDA r : r.priority_level = "hot")

\* C14: GET /data/buyers/hot is answered by get_hot_buyers with a success
\* response whose data are the buyers of priority_level "hot"; it is not
\* answered by get_buyer and is not a not-found error.
C14_HotBuyersRoute ==
    (ag_pc = "done" /\ ag_req.agent = "api" /\ ag_req.action = "GET"
        /\ ag_req.context.path = <<"data", "buyers", "hot">>)
    => /\ ag_out.result.handler = "get_hot_buyers"
       /\ ag_out.result.status_code = 200
       /\ ag_out.result.data = HotBuyers

\* the lower-cased assigned_agent field of step k of the plan
AssignedOf(k) == Lower(Get(Steps[k], "assigned_agent", ""))

InvocationsAt(k) == {i \in 1..Len(invoked) : invoked[i].at = k}

\* C15: when execute_plan has returned, every step of the plan whose
\* assigned_agent field, lower-cased, names one of the four agents and is a
\* key of the agent mapping has been dispatched exactly once, to that agent
\* and with the step's action, and the step's recorded result is what the
\* agent returned, not a skip.
C15_AssignedAgentDispatched ==
    (pc = "returned" /\ Truthy(results)) =>
        \A k \in 1..Len(Steps) :
            (AssignedOf(k) \in SpecialistNames \cap agents) =>
                /\ Cardinality(InvocationsAt(k)) = 1
                /\ \A i \in InvocationsAt(k) :
                      /\ invoked[i].agent = AssignedOf(k)
                      /\ invoked[i].action = Get(Steps[k], "action", "")
                /\ k <= Len(Recorded)
                /\ Recorded[k].agent = AssignedOf(k)
                /\ Recorded[k].result.status # "skipped"

\* C16: whenever execute_plan is about to dispatch a step, and after it has
\* returned, the shared context maps the key step_{n}_result of every step
\* recorded so far (n that step's number) to the result recorded for that step.
C16_EarlierResultsInContext ==
    (pc \in {"loop", "returned"} /\ Truthy(results)) =>
        \A i \in 1..Len(Recorded) :
            /\ StepKey(Recorded[i].step) \in DOMAIN shared
            /\ shared[StepKey(Recorded[i].step)] = Recorded[i].result

\* execute_plan has been entered and is no longer running
ExecutionOver == pc \in {"returned", "raised"} /\ Truthy(results)

\* C17: agents are invoked in the order of the steps array, no step more than
\* once; the k-th entry of steps_completed is the {step, agent, action, result}
\* entry of the k-th step; and when execute_plan is over steps_completed has
\* one entry for every step of the plan, steps that follow a step whose result
\* has status "error" included.
C17_EachStepOnceInOrder ==
    /\ \A i, j \in 1..Len(invoked) : i < j => invoked[i].at < invoked[j].at
    /\ \A k \in 1..Len(Recorded) :
          /\ k <= Len(Steps)
          /\ DOMAIN Recorded[k] = {"step", "agent", "action", "result"}
          /\ Recorded[k].step = Get(Steps[k], "step", 0)
          /\ Recorded[k].agent = NameOf(k)
          /\ Recorded[k].action = Get(Steps[k], "action", "")
    /\ ExecutionOver => Len(Recorded) = Len(Steps)

\* C18: no exception raised by an agent's execute leaves execute_plan: every
\* step dispatched from the loop is followed by the loop going on with the
\* step recorded, never by the exception reaching the caller.
C18_RaiseContainedToStep ==
    [][(pc = "loop" /\ step_idx <= Len(Steps)) =>
           /\ pc' = "loop"
           /\ step_idx' = step_idx + 1
           /\ Len(results'.steps_completed) = Len(results.steps_completed) + 1]_vars

\* execute_plan has initialised its result and context and no step has run
AtStartOfExecution ==
    pc = "loop" /\ step_idx = 1 /\ Truthy(results) /\ Len(Recorded) = 0

EntitiesOf(p) == Get(p, "entities_involved", EmptyDict)

\* C19: at the start of execute_plan the shared context has exactly the keys
\* of the context the plan came with and of the plan's entities_involved; a
\* key of entities_involved carries the entity's value, any other key the
\* value of the plan's context.  A plan with neither starts empty.
C19_ContextMergedWithEntities ==
    AtStartOfExecution =>
        /\ DOMAIN shared = DOMAIN call.context \cup DOMAIN EntitiesOf(plan)
        /\ \A k \in DOMAIN EntitiesOf(plan) : shared[k] = EntitiesOf(plan)[k]
        /\ \A k \in DOMAIN call.context \ DOMAIN EntitiesOf(plan) :
              shared[k] = call.context[k]

\* execution starts with a key on which the context and the entities differ
C19_Witness ==
    /\ AtStartOfExecution
    /\ \E k \in DOMAIN call.context \cap DOMAIN EntitiesOf(plan) :
          call.context[k] # EntitiesOf(plan)[k]

\* the calls whose property and buyer carry all four fields of the formula
FullCalls ==
    {i \in 1..Len(ms_calls) :
        /\ "asking_price" \in DOMAIN ms_prop
        /\ {"max_budget", "buyer_type", "priority_level"} \subseteq DOMAIN ms_calls[i].buyer}

\* C20: for a property with an asking price and a buyer with a budget, a
\* buyer_type and a priority_level, the score is min(100, 50 + B + T + P):
\* B is 20 for a budget of at least the asking price, 10 for a budget of at
\* least 95% of it, else 0; T is 20 for chain_free_cash, 15 for
\* first_time_buyer, else 0; P is 10 for priority hot, else 0.
C20_ScoreFormula ==
    \A i \in FullCalls :
        LET asking == ms_prop.asking_price
            b == ms_calls[i].buyer
            B == IF b.max_budget >= asking THEN 20
                 ELSE IF 20 * b.max_budget >= 19 * asking THEN 10 ELSE 0
            T == CASE b.buyer_type = "chain_free_cash" -> 20
                   [] b.buyer_type = "first_time_buyer" -> 15
                   [] OTHER -> 0
            P == IF b.priority_level = "hot" THEN 10 ELSE 0
            total == 50 + B + T + P
        IN  ms_calls[i].score = IF total > 100 THEN 100 ELSE total

\* a hot first-time buyer with a budget of exactly 95% of the asking price
\* has been scored 85
C20_Witness ==
    \E i \in FullCalls :
        /\ ms_prop.asking_price = 300000
        /\ ms_calls[i].buyer.max_budget = 285000
        /\ ms_calls[i].buyer.buyer_type = "first_time_buyer"
        /\ ms_calls[i].buyer.priority_level = "hot"
        /\ ms_calls[i].score = 85

RiskActions == {"Assess risk", "RISK review"}

\* C21: a risk assessment has status "success"; its risk_score is 20, plus 20
\* exactly when the context's buyer_id names a stored buyer whose buyer_type
\* is not "chain_free_cash"; its risk_level is LOW for a score below 40,
\* MEDIUM for a score below 60, and HIGH otherwise.
C21_RiskScoreAndLevel ==
    Called("intelligence", RiskActions) =>
        LET rows == StoredRows("buyers", "buyer_id")
            chain == Len(rows) > 0 /\ rows[1].buyer_type # "chain_free_cash"
            r == ag_out.result
        IN  /\ r.status = "success"
            /\ r.risk_score = 20 + (IF chain THEN 20 ELSE 0)
            /\ r.risk_score < 40 => r.risk_level = "LOW"
            /\ (r.risk_score >= 40 /\ r.risk_score < 60) => r.risk_level = "MEDIUM"
            /\ r.risk_score >= 60 => r.risk_level = "HIGH"

\* a stored first-time buyer has been assessed: score 40, level MEDIUM
C21_Witness ==
    /\ Called("intelligence", RiskActions)
    /\ Len(StoredRows("buyers", "buyer_id")) > 0
    /\ StoredRows("buyers", "buyer_id")[1].buyer_type = "first_time_buyer"
    /\ ag_out.result.risk_score = 40
    /\ ag_out.result.risk_level = "MEDIUM"

\* C28: every risk assessment has risk_score 20 or 40 and risk_level LOW or
\* MEDIUM; HIGH is never produced.
C28_RiskNeverHigh ==
    Called("intelligence", RiskActions) =>
        /\ ag_out.result.risk_score \in {20, 40}
        /\ ag_out.result.risk_level \in {"LOW", "MEDIUM"}

\* the riskiest case, a stored buyer who is not a cash buyer, has been
\* assessed and its level is MEDIUM
C28_Witness ==
    /\ Called("intelligence", RiskActions)
    /\ ag_out.result.factors = <<"Chain buyer">>
    /\ ag_out.result.risk_level = "MEDIUM"

ValidateActions == {"Validate content", "Validate EPC"}

\* the text before the first line break of s
FirstLineOf(s) ==
    LET ends == {n \in 0..Len(s) :
                    /\ \A i \in 1..n : SubSeq(s, i, i) # "\n"
                    /\ n = Len(s) \/ SubSeq(s, n + 1, n + 1) = "\n"}
    IN  SubSeq(s, 1, CHOOSE n \in ends : TRUE)

ContentOf(ctx) == Get(ctx, "content", "")

\* C22: content validation of non-empty content has status "success" and
\* approved true exactly when the first line of the model's reply, letter case
\* set aside, contains APPROVED; empty content gives status "error" and the
\* model is not called.
C22_ApprovedFromFirstLine ==
    Called("compliance", ValidateActions) =>
        IF ContentOf(ag_req.context) = ""
        THEN ag_out.result.status = "error" /\ ag_out.llm_calls = 0
        ELSE /\ ag_out.result.status = "success"
             /\ ag_out.llm_calls = 1
             /\ ag_out.result.approved =
                    Contains(Upper(FirstLineOf(ag_out.result.validation_result)), "APPROVED")

\* content was validated with a reply that says APPROVED on its second line
\* only, and is not approved
C22_Witness ==
    /\ Called("compliance", ValidateActions)
    /\ ContentOf(ag_req.context) # ""
    /\ ag_out.result.validation_result = "Looks fine\nAPPROVED"
    /\ ag_out.result.approved = FALSE

\* C22 as stated: approved is true exactly when the first line of the reply
\* contains the upper-case text APPROVED as it stands.
C22_ApprovedLiteralUppercase ==
    (Called("compliance", ValidateActions) /\ ContentOf(ag_req.context) # "") =>
        ag_out.result.approved =
            Contains(FirstLineOf(ag_out.result.validation_result), "APPROVED")

\* C23: the Compliance action "Validate EPC" with the property_id of a stored
\* property is answered by the EPC validity check: status "success" with
\* epc_valid, epc_rating and epc_expiry.
C23_ValidateEpcChecksEpc ==
    (Called("compliance", {"Validate EPC"})
        /\ Len(StoredRows("properties", "property_id")) > 0)
    => /\ ag_out.result.status = "success"
       /\ {"epc_valid", "epc_rating", "epc_expiry"} \subseteq DOMAIN ag_out.result

ScoutCalled == ag_pc = "done" /\ ag_req.agent = "scout"

\* the request's action, lower-cased, contains the word
Asks(word) == Contains(Lower(ag_req.action), word)

\* the request's context names a stored record of the table
Names(name, key) == Len(StoredRows(name, key)) > 0

\* C24: every Scout result has status "success".  A lookup answer is given
\* only for a stored record; when the id is absent or names no record the
\* lookup is passed over, and the first of the later intents that applies
\* answers, in the order property, vendor, buyer, epc, crm/record, portal,
\* model.
C24_ScoutNeverErrors ==
    ScoutCalled =>
        LET r == ag_out.result
            lookup == \/ Asks("property") /\ Names("properties", "property_id")
                      \/ Asks("vendor") /\ Names("vendors", "vendor_id")
                      \/ Asks("buyer") /\ Names("buyers", "buyer_id")
                      \/ Asks("epc") /\ Names("properties", "property_id")
            search == \/ Asks("property") /\ Asks("search")
                      \/ Asks("buyer") /\ (Asks("search") \/ Asks("match"))
        IN  /\ r.status = "success"
            /\ r.type = "property" => Asks("property") /\ Names("properties", "property_id")
            /\ r.type = "vendor" => Asks("vendor") /\ Names("vendors", "vendor_id")
            /\ r.type = "buyer" => Asks("buyer") /\ Names("buyers", "buyer_id")
            /\ r.type = "epc_verification" =>
                  Asks("epc") /\ Names("properties", "property_id")
            /\ (~lookup /\ ~search) =>
                  r.type = IF Asks("crm") \/ Asks("record") THEN "crm_operation"
                           ELSE IF Asks("portal") THEN "portal_operation"
                           ELSE "llm_response"

\* a property lookup with an id that names no stored property was answered
\* by the model fallback
C24_Witness ==
    /\ ScoutCalled
    /\ ag_req.action = "Find property"
    /\ "property_id" \in DOMAIN ag_req.context
    /\ ~Names("properties", "property_id")
    /\ ag_out.result.status = "success"
    /\ ag_out.result.type = "llm_response"

\* the criteria each search recognises: <<criterion, column, comparison>>
SearchRules(type) ==
    IF type = "property_search"
    THEN {<<"min_price", "asking_price", "at least">>,
          <<"max_price", "asking_price", "at most">>,
          <<"bedrooms", "bedrooms", "equal">>,
          <<"min_bedrooms", "bedrooms", "at least">>,
          <<"max_bedrooms", "bedrooms", "at most">>,
          <<"status", "status", "equal">>,
          <<"property_type", "property_type", "equal">>,
          <<"postcode_prefix", "postcode", "prefix">>}
    ELSE {<<"min_budget", "max_budget", "at least">>,
          <<"max_budget", "max_budget", "at most">>,
          <<"buyer_type", "buyer_type", "equal">>,
          <<"priority_level", "priority_level", "equal">>,
          <<"financial_status", "financial_status", "equal">>}

\* a blank numeric cell satisfies no comparison
Satisfies(cell, comparison, x) ==
    CASE comparison = "at least" -> cell # NoneNum /\ cell >= x
      [] comparison = "at most" -> cell # NoneNum /\ cell <= x
      [] comparison = "equal" -> cell = x
      [] comparison = "prefix" -> StartsWith(cell, x)

SearchedTable(type) == Load(IF type = "property_search" THEN "properties" ELSE "buyers")

\* the positions in the searched table of the records that satisfy every
\* recognised criterion of the request
Hits(type) ==
    LET criteria == Get(ag_req.context, "search_criteria", EmptyDict)
        table == SearchedTable(type)
    IN  {i \in 1..Len(table) :
            \A rule \in SearchRules(type) :
                rule[1] \in DOMAIN criteria =>
                    Satisfies(table[i][rule[2]], rule[3], criteria[rule[1]])}

ScoutSearched ==
    ScoutCalled /\ ag_out.result.type \in {"property_search", "buyer_search"}

\* C25: a property or buyer search of Scout returns count = the number of
\* stored records that satisfy every recognised criterion, and data = the
\* first min(count, 10) of them in table order.
C25_SearchCountAndFirstTen ==
    ScoutSearched =>
        LET r == ag_out.result
            hits == Hits(r.type)
            table == SearchedTable(r.type)
        IN  /\ r.count = Cardinality(hits)
            /\ Len(r.data) = IF r.count < 10 THEN r.count ELSE 10
            /\ \A k \in 1..Len(r.data) :
                  \E i \in hits :
                      /\ Cardinality({j \in hits : j < i}) = k - 1
                      /\ r.data[k] = table[i]

\* a buyer search whose criteria kept some of the stored buyers and dropped
\* others
C25_Witness ==
    /\ ScoutSearched
    /\ ag_out.result.type = "buyer_search"
    /\ ag_out.result.count > 0
    /\ ag_out.result.count < Len(Load("buyers"))

\* C26: a load of a cached name changes nothing and returns the cached
\* table; a load of a name not cached reads its file once, caches the table
\* read (an empty one for a missing file or unknown name) and returns it;
\* reload(name) puts a fresh read in that name's entry and leaves every other
\* entry as it was; reload() empties the cache without reading; and a change
\* of the files changes no cached table.
C26_CacheDiscipline ==
    [][LET name == served'.name
           others == DOMAIN tables \ {name}
           fresh == IF name \in DOMAIN files /\ files[name].n > 0
                    THEN files[name] ELSE [n |-> 0, cycle |-> 1]
           one_read == /\ DOMAIN reads' = DOMAIN reads \cup {name}
                       /\ reads'[name] = (IF name \in DOMAIN reads
                                           THEN reads[name] ELSE 0) + 1
                       /\ \A m \in DOMAIN reads \ {name} : reads'[m] = reads[m]
       IN  IF files' # files THEN tables' = tables /\ reads' = reads
           ELSE IF served'.op = "load" /\ name \in DOMAIN tables
           THEN tables' = tables /\ reads' = reads /\ served'.table = tables[name]
           ELSE IF served'.op = "load"
           THEN /\ DOMAIN tables' = DOMAIN tables \cup {name}
                /\ tables'[name] = fresh
                /\ served'.table = fresh
                /\ \A m \in others : tables'[m] = tables[m]
                /\ one_read
           ELSE IF served'.op = "reload" /\ name # NONE
           THEN /\ DOMAIN tables' = DOMAIN tables \cup {name}
                /\ tables'[name] = fresh
                /\ \A m \in others : tables'[m] = tables[m]
                /\ one_read
           ELSE DOMAIN tables' = {} /\ reads' = reads]_vars

\* buyers has been reloaded after its file changed, while the cached
\* properties table, whose file has since gone, is still the one first read
C26_Witness ==
    /\ served = [op |-> "reload", name |-> "buyers"]
    /\ DOMAIN tables = {"properties", "buyers"}
    /\ tables.buyers = Snap(3, 2)
    /\ reads.buyers = 2
    /\ tables.properties = Snap(Len(DemoProperties), 1)
    /\ files.properties = EmptyFrame
    /\ reads.properties = 1

RecordedBy(e) == IF Truthy(e.results) THEN e.results.steps_completed ELSE <<>>

\* what an execution holds is its own: its recorded entries are the steps of
\* its plan, in order; once execute_plan has begun its context has the keys
\* of the context it was called with, of its plan's entities and of the
\* results of its recorded steps, and nothing else; each result key carries
\* the result of the last of its own steps with that number; and the context
\* of its plan is that context.
OwnOnly(e) ==
    LET rec == RecordedBy(e)
        steps == Get(e.plan, "steps", <<>>)
        base == Update(e.call.context, Get(e.plan, "entities_involved", EmptyDict))
        keys == {StepKey(rec[i].step) : i \in 1..Len(rec)}
    IN  /\ Len(rec) <= Len(steps)
        /\ \A i \in 1..Len(rec) :
              /\ rec[i].step = Get(steps[i], "step", 0)
              /\ rec[i].action = Get(steps[i], "action", "")
              /\ \E j \in i..Len(rec) :
                    /\ rec[j].step = rec[i].step
                    /\ e.shared[StepKey(rec[i].step)] = rec[j].result
        /\ IF Truthy(e.results)
           THEN /\ DOMAIN e.shared = DOMAIN base \cup keys
                /\ \A k \in DOMAIN base : e.shared[k] = base[k]
                /\ DOMAIN e.plan.context = DOMAIN e.shared
                /\ \A k \in DOMAIN e.shared : e.plan.context[k] = e.shared[k]
           ELSE DOMAIN e.shared = {}

\* C27: of two interleaved executions of process_query each holds only its
\* own context entries, plan steps and step results; and a step of the one
\* that runs leaves the state of the other as it was (a switch of threads
\* changes neither).
C27_ExecutionsIndependent ==
    /\ [](OwnOnly(Running) /\ OwnOnly(peer))
    /\ [][\/ peer' = peer
          \/ peer' = Running /\ Running' = peer]_vars

\* both executions are inside their loops, each with a step recorded, for
\* different contexts and different plans
C27_Witness ==
    /\ pc = "loop"
    /\ peer.pc = "loop"
    /\ Len(RecordedBy(Running)) > 0
    /\ Len(RecordedBy(peer)) > 0
    /\ call.context.property_id # peer.call.context.property_id
    /\ plan.plan_id # peer.plan.plan_id

\* the approval gate has been consulted in the current call and has answered
GateAnswered == gate.returned \in {"approved", "rejected"}

\* C29: in a call of process_query with require_approval false the approval
\* gate is never consulted, whatever human_approval_required the plan
\* carries; in a call with require_approval true the plan is executed only
\* after the gate has answered, and when the call is over the gate has been
\* consulted.
C29_GateFollowsArgument ==
    call.via = "process_query" =>
        IF call.require_approval
        THEN /\ pc \in {"execute", "loop"} => gate.returned = "approved"
             /\ pc \in {"returned", "raised"} => GateAnswered
        ELSE pc # "gate" /\ gate = NoGate

\* the current call of process_query is executing the fallback plan
FallbackRuns ==
    /\ call.via = "process_query"
    /\ "raw_response" \in DOMAIN plan
    /\ plan.plan_id = "CUSTOM"
    /\ Truthy(results)

\* C30: while and after the fallback CUSTOM plan is executed through
\* process_query no agent is invoked although "orchestrator" is a key of the
\* agent mapping; its one step is recorded as skipped with the reason
\* "Agent orchestrator not available"; and the return of execute_plan adds
\* one entry to the history and gives the envelope status "completed".
C30_FallbackPlanSkipsOrchestrator ==
    /\ [](FallbackRuns =>
            /\ "orchestrator" \in agents
            /\ invoked = <<>>
            /\ pc # "raised"
            /\ pc = "returned" =>
                  /\ Recorded = <<[step |-> 1, agent |-> "orchestrator",
                                   action |-> "Process query",
                                   result |-> [status |-> "skipped",
                                               reason |-> "Agent orchestrator not available"]]>>
                  /\ envelope.status = "completed"
                  /\ envelope.results.status = "completed")
    /\ [][(FallbackRuns /\ pc = "loop" /\ pc' = "returned") =>
              /\ Len(execution_history') = Len(execution_history) + 1
              /\ execution_history'[Len(execution_history')].results = results'
              /\ \A i \in 1..Len(execution_history) :
                    execution_history'[i] = execution_history[i]]_vars

\* the fallback plan has been executed in a second call, without approval
\* being asked, and the history holds two entries
C30_Witness ==
    /\ FallbackRuns
    /\ pc = "returned"
    /\ ~call.require_approval
    /\ Len(execution_history) = 2
    /\ Recorded[1].result.status = "skipped"

====
